---- MODULE Spec2Model ----
(***************************************************************************)
(* A model of the ingestion-and-enrichment pipeline of the real-estate     *)
(* news assistant: the collector's bounded-concurrency fetch, the          *)
(* ingestion orchestrator with its per-article transaction, the sentiment  *)
(* extractor's parse/validate chain, the file cache and the text chunker.  *)
(*                                                                         *)
(* Each component has its own variables and its own specification; a       *)
(* specification leaves the other components' variables at their initial   *)
(* values.                                                                 *)
(***************************************************************************)
EXTENDS Integers, Sequences, FiniteSets, TLC

VARIABLES
    \* ---- collector (src/src/ingestion/collector.py) ----
    collPc,        \* position of NewsCollector.collect: "idle", "gather", "returned"
    collN,         \* len(urls) of the running collect call
    taskPc,        \* per task of asyncio.gather: "waiting", "fetching", "done"
    semValue,      \* the counter inside asyncio.Semaphore
    \* ---- chunker (src/src/storage/vector_store.py) ----
    text,          \* the text handed to _chunk_text (a sequence of characters)
    settings,      \* the Settings fields _chunk_text reads
    chunkPc,       \* Settings(): "construct", "rejected", "configured"; _chunk_text:
                   \* "call", "loop", "done" (returned), "raised" (ValueError);
                   \* add: "embedded", "returned", "failed" (collection.add raised)
    start,         \* the loop variable `start` (0-based offset)
    chunks,        \* the list `chunks`: one record per emitted chunk
    chunkIters,    \* history: iterations of the while loop so far
    prevStart,     \* history: `start` before the last iteration
    dropped,       \* history: the windows whose trimmed text was skipped
    addEmbedded,   \* history: chunks handed to the embedder by add
    addWritten,    \* history: chunks add wrote to the collection
    \* ---- file cache, one caller at a time (src/src/services/cache.py) ----
    cacheDir,      \* the cache directory: key -> file (content, mtime) or NoFile
    clock,         \* time.time(), in days
    cacheCfg,      \* the Settings fields the cache reads
    cacheHist,     \* history: the last set_cached and the get_cached right after it
    insertedKeys,  \* history: the keys set_cached was called for
    onlySets,      \* history: no get_cached has removed a file so far
    \* ---- file cache, concurrent callers on one key (src/src/services/cache.py) ----
    ccDir,         \* the directory entry of the key's file: an inode number, or 0
    ccInodes,      \* inode number -> the bytes the file holds
    ccProc,        \* writer -> the OS process it runs in
    ccMutex,       \* OS process -> the writer holding its _cache_lock, or 0
    ccFlock,       \* inode number -> the writer holding flock(LOCK_EX), or 0
    ccW,           \* writer -> position in set_cached, its open file, its buffer
    ccR,           \* reader -> position in get_cached, what it read, its return
    \* ---- sentiment extractor (src/src/extraction/sentiment.py) ----
    exPc,          \* "idle", "calling" (in the retry loop), "returned", "raised"
    exKey,         \* the cache key of the (truncated) content of the call, or 0
    exAttempt,     \* the loop variable `attempt`
    exResp,        \* history: what the last model call of this extract gave
    exExcs,        \* history: the exceptions handled in this call, in order
    exSleeps,      \* history: the asyncio.sleep() seconds of this call, in order
    exFromCache,   \* history: the call returned the cached result
    exResult,      \* what extract() returned
    \* ---- ingestion (src/src/services/ingestion.py) ----
    ingPc,         \* "idle", "loop" (at the head of the for loop), "extracting", "returned"
    ingUrls,       \* the argument `urls`
    ingFetched,    \* history: what the fetch of each url gave (0: nothing)
    ingBatch,      \* `articles`: what collect() returned, in order
    ingIdx,        \* the position of `raw` in `articles`
    processed,     \* the counter `processed`
    totalChunks,   \* the counter `total_chunks`
    dbArticles,    \* committed rows of table articles, in insertion order
    dbMarkets,     \* committed rows of table markets (their names)
    dbSentiments,  \* committed rows of table sentiments, in insertion order
    dbAlerts,      \* committed rows of table alerts
    tx,            \* the session's open transaction: flushed and pending rows
    index,         \* the vector store: the documents whose chunks it holds
    ingOutcomes,   \* history: what happened to each article of the batch so far
    ingSnap,       \* history: the tables and the index when the article was begun
    ingFault,      \* history: the step that raised for the last failed article
    ingResp,       \* history: the last model response of the last finished extract
    ingIndexed,    \* history: the documents vector_store.add indexed during this call, in order
    ingDetects,    \* history: the calls of detect_anomaly made for the article, with what they returned
    ingRet,        \* what process_urls returned
    \* ---- anomaly detector (src/src/analysis/trends.py) ----
    anRows,        \* the rows of table sentiments the session's queries see
    anMarkets,     \* the names of the rows of table markets
    anPc,          \* "idle", "call" (about to run detect_anomaly), "done"
    anResult,      \* what detect_anomaly returned
    \* ---- periodic trigger and pipeline (src/src/scheduler.py) ----
    schRunning,    \* AsyncIOScheduler.running
    schJob,        \* the job "ingestion": "none", "paused" (next_run_time None) or "scheduled"
    schClock,      \* the scheduler's wakeups since the last interval boundary
    schFired,      \* history: the scheduler has invoked the pipeline function since start()
    pipeDb,        \* the urls of the committed rows of table articles
    pipePc,        \* run -> "idle", "fetch", "query", "diff", "process", "close"
    pipeItems,     \* run -> `items`, the discovered urls
    pipeExisting,  \* run -> `existing`, the urls the query returned
    pipeNew,       \* run -> `new_urls`
    pipeFetched,   \* history: run -> the urls process_urls fetched in this run
    pipeCalls,     \* history: run -> the calls of process_urls in this run
    \* ---- two process_urls on one event loop (src/src/services/ingestion.py) ----
    ciBatch,       \* what collect() returns to both invocations
    ciDb0,         \* history: the committed rows of table articles at the start
    ciDb,          \* the committed rows of table articles
    ciLock,        \* the invocation whose session holds SQLite's write lock, or 0
    ciPc,          \* invocation -> "collect", "extract" (awaiting), "returned", "raised"
    ciIdx,         \* invocation -> the position of `raw` in `articles`
    ciOut,         \* history: invocation -> what happened to each article so far
    \* ---- VectorStore() called from several threads (src/src/storage/vector_store.py) ----
    vsInstance,    \* VectorStore._instance: an object (named by its creator), or 0 for None
    vsInitialized, \* object -> its _initialized attribute
    vsEmbedder,    \* VectorStore._embedder: a model (named by its creator), or 0 for None
    vsBuilt,       \* history: the SentenceTransformer objects instantiated so far
    vsPc,          \* caller -> its position in __new__ / __init__
    vsSelf,        \* caller -> the object __new__ returned to it, or 0
    \* ---- configuration during process_urls (src/src/config.py) ----
    ingSettings,   \* the Settings fields vector_store.add reads under process_urls
    \* ---- one _fetch call (src/src/ingestion/collector.py) ----
    ftPc,          \* "idle", "request" (about to await client.get), "sleep", "returned"
    ftAttempt,     \* the loop variable `attempt` (0-based)
    ftOutcomes,    \* history: what each client.get of this call led to
    ftSleeps,      \* history: the asyncio.sleep calls, with the attempt number
    ftResult,      \* "pending", "doc" (a RawArticle) or "none" (None)
    \* ---- source discovery (src/src/ingestion/sources.py) ----
    srcPc,         \* fetch_all: "idle", "gather", "returned"
    srcRss,        \* what fetch_rss returned, or Pending
    srcNewsapi,    \* what fetch_newsapi returned, or Pending
    srcUnique,     \* the list fetch_all returns
    \* ---- collect: gather and deduplication (src/src/ingestion/collector.py) ----
    gaPc,          \* collect: "idle", "gather", "returned"
    gaN,           \* len(urls); the urls are 1..gaN in the order given
    gaResults,     \* task -> the content of its RawArticle, 0 for None, or -1 while running
    gaOrder,       \* history: the tasks in the order in which they completed
    gaArticles,    \* the list collect returns
    \* ---- get_cached on one cache file (src/src/services/cache.py) ----
    gcEntry,       \* the file of the key: what it holds, or that it is absent
    gcNow,         \* time.time(), in days
    gcTtl,         \* settings.cache_ttl_days
    gcPc,          \* "idle", "returned", "raised"
    gcOut,         \* what the call gave: None, a result, or the exception it raised
    gcUnlinks,     \* history: cache_file.unlink() calls of the call
    gcCall,        \* history: the file as the call found it, and what failed
    \* ---- collect with the fetch policy of one task (src/src/ingestion/collector.py) ----
    sfTracked,     \* the task whose _fetch is followed step by step, 0 for none
    sfAttempt,     \* the loop variable `attempt` of that task's _fetch
    sfResult,      \* "pending", "doc", "none", or "raised"
    sfBlocked      \* history: that task slept in backoff while another waited for a slot

collVars == <<collPc, collN, taskPc, semValue>>
chunkVars == <<text, settings, chunkPc, start, chunks, chunkIters, prevStart,
               dropped, addEmbedded, addWritten>>

cacheVars == <<cacheDir, clock, cacheCfg, cacheHist, insertedKeys, onlySets>>

ccVars == <<ccDir, ccInodes, ccProc, ccMutex, ccFlock, ccW, ccR>>

exVars == <<exPc, exKey, exAttempt, exResp, exExcs, exSleeps, exFromCache, exResult>>

ingVars ==
    <<ingPc, ingUrls, ingFetched, ingBatch, ingIdx, processed, totalChunks, dbArticles, dbMarkets,
      dbSentiments, dbAlerts, tx, index, ingOutcomes, ingSnap, ingFault, ingResp, ingDetects,
      ingIndexed, ingRet>>

anVars == <<anRows, anMarkets, anPc, anResult>>

\* The components that are only ever run on their own.
pipeVars ==
    <<schRunning, schJob, schClock, schFired, pipeDb, pipePc, pipeItems, pipeExisting, pipeNew, pipeFetched,
      pipeCalls>>
ciVars == <<ciBatch, ciDb0, ciDb, ciLock, ciPc, ciIdx, ciOut>>
vsVars == <<vsInstance, vsInitialized, vsEmbedder, vsBuilt, vsPc, vsSelf>>
cfgVars == <<ingSettings>>
ftVars == <<ftPc, ftAttempt, ftOutcomes, ftSleeps, ftResult>>
srcVars == <<srcPc, srcRss, srcNewsapi, srcUnique>>
gaVars == <<gaPc, gaN, gaResults, gaOrder, gaArticles>>
gcVars == <<gcEntry, gcNow, gcTtl, gcPc, gcOut, gcUnlinks, gcCall>>
sfVars == <<sfTracked, sfAttempt, sfResult, sfBlocked>>
lateVars == <<anVars, pipeVars, ciVars, vsVars, cfgVars, ftVars, srcVars, gaVars, gcVars, sfVars>>

vars == <<collVars, chunkVars, cacheVars, ccVars, exVars, ingVars, lateVars>>

\* What each component's actions leave alone.
notColl == <<chunkVars, cacheVars, ccVars, exVars, ingVars, lateVars>>
notChunk == <<collVars, cacheVars, ccVars, exVars, ingVars, lateVars>>
notCache == <<collVars, chunkVars, ccVars, exVars, ingVars, lateVars>>
notCc == <<collVars, chunkVars, cacheVars, exVars, ingVars, lateVars>>
notEx == <<collVars, chunkVars, ccVars, ingVars, lateVars>>
notIng == <<collVars, chunkVars, ccVars, lateVars>>
early == <<collVars, chunkVars, cacheVars, ccVars, exVars, ingVars>>
notAn == <<early, pipeVars, ciVars, vsVars, cfgVars, ftVars, srcVars, gaVars, gcVars, sfVars>>
notPipe == <<early, anVars, ciVars, vsVars, cfgVars, ftVars, srcVars, gaVars, gcVars, sfVars>>
notCi == <<early, anVars, pipeVars, vsVars, cfgVars, ftVars, srcVars, gaVars, gcVars, sfVars>>
notVs == <<early, anVars, pipeVars, ciVars, cfgVars, ftVars, srcVars, gaVars, gcVars, sfVars>>
notFt == <<early, anVars, pipeVars, ciVars, vsVars, cfgVars, srcVars, gaVars, gcVars, sfVars>>
notSrc == <<early, anVars, pipeVars, ciVars, vsVars, cfgVars, ftVars, gaVars, gcVars, sfVars>>
notGa == <<early, anVars, pipeVars, ciVars, vsVars, cfgVars, ftVars, srcVars, gcVars, sfVars>>
notGc == <<early, anVars, pipeVars, ciVars, vsVars, cfgVars, ftVars, srcVars, gaVars, sfVars>>
notCollSf == <<chunkVars, cacheVars, ccVars, exVars, ingVars, anVars, pipeVars, ciVars, vsVars, cfgVars, ftVars, srcVars, gaVars, gcVars>>

\* ------------------------------------------------------------------------
\* Bounds of the model
\* ------------------------------------------------------------------------
\* Largest URL list handed to collect.
NumUrls == 11

\* ------------------------------------------------------------------------
\* Collector: collect / _fetch_with_semaphore
\* ------------------------------------------------------------------------
\* collector.py:37
MAX_CONCURRENT_REQUESTS == 10

Tasks == 1..NumUrls

InFlight == {i \in 1..collN : taskPc[i] = "fetching"}

\* Mutant of SemaphoreFree: the limiter never blocks.
SemaphoreFreeUnbounded == TRUE

\* asyncio.Semaphore.acquire proceeds only while the counter is positive.
SemaphoreFree == semValue > 0

CollInit ==
    /\ collPc = "idle"
    /\ collN = 0
    /\ taskPc = [i \in Tasks |-> "done"]
    /\ semValue = MAX_CONCURRENT_REQUESTS

\* collect(urls): a fresh semaphore and one task per URL, all handed to gather.
Collect ==
    /\ collPc = "idle"
    /\ \E n \in 0..NumUrls :
         /\ collN' = n
         /\ taskPc' = [i \in Tasks |-> IF i <= n THEN "waiting" ELSE "done"]
    /\ semValue' = MAX_CONCURRENT_REQUESTS
    /\ collPc' = "gather"
    /\ UNCHANGED notColl

\* _fetch_with_semaphore: `async with semaphore` entered, _fetch starts.
Acquire(i) ==
    /\ collPc = "gather"
    /\ i <= collN
    /\ taskPc[i] = "waiting"
    /\ SemaphoreFree
    /\ semValue' = semValue - 1
    /\ taskPc' = [taskPc EXCEPT ![i] = "fetching"]
    /\ UNCHANGED <<collPc, collN, notColl>>

\* _fetch returned (a document, None) or raised: `async with` releases the slot.
Release(i) ==
    /\ collPc = "gather"
    /\ i <= collN
    /\ taskPc[i] = "fetching"
    /\ semValue' = semValue + 1
    /\ taskPc' = [taskPc EXCEPT ![i] = "done"]
    /\ UNCHANGED <<collPc, collN, notColl>>

\* gather completes when every task has finished.
CollectReturn ==
    /\ collPc = "gather"
    /\ \A i \in 1..collN : taskPc[i] = "done"
    /\ collPc' = "returned"
    /\ UNCHANGED <<collN, taskPc, semValue, notColl>>

CollNext ==
    \/ Collect
    \/ \E i \in Tasks : Acquire(i)
    \/ \E i \in Tasks : Release(i)
    \/ CollectReturn

\* ------------------------------------------------------------------------
\* Chunker: VectorStore._chunk_text
\* ------------------------------------------------------------------------
\* Longest text handed to the chunker.
MaxTextLen == 120
\* Largest chunk_size drawn for the settings.
MaxChunkSize == 60

\* vector_store.py:129, `len(chunk) > 50`
MIN_CHUNK_CHARS == 50

\* vector_store.py:122: the separators, in the order they are tried.
SEPARATORS == << <<".", " ">>, <<".", "\n">>, <<"!", " ">>, <<"?", " ">>, <<"\n", "\n">> >>

Max(a, b) == IF a >= b THEN a ELSE b
Min(a, b) == IF a <= b THEN a ELSE b

\* str.strip() strips these (the only whitespace the texts of the model hold).
IsSpace(c) == c \in {" ", "\n"}

\* Python's t[s:e] for 0 <= s, with e clipped to len(t).
Slice(t, s, e) == SubSeq(t, s + 1, Min(e, Len(t)))

\* Python's w.rfind(sep): the highest 0-based index where sep occurs, or -1.
RFind(w, sep) ==
    LET hits == {i \in 0..(Len(w) - Len(sep)) :
                    \A j \in 1..Len(sep) : w[i + j] = sep[j]}
    IN  IF hits = {} THEN -1 ELSE CHOOSE i \in hits : \A k \in hits : k <= i

\* The number of leading (trailing) whitespace characters of w.
LeadSpaces(w) ==
    LET stops == {i \in 1..Len(w) : ~IsSpace(w[i])}
    IN  IF stops = {} THEN Len(w) ELSE (CHOOSE i \in stops : \A k \in stops : i <= k) - 1
TrailSpaces(w) ==
    LET stops == {i \in 1..Len(w) : ~IsSpace(w[i])}
    IN  IF stops = {} THEN 0 ELSE Len(w) - (CHOOSE i \in stops : \A k \in stops : k <= i)

\* len(w.strip())
StripLen(w) == Len(w) - LeadSpaces(w) - TrailSpaces(w)

\* vector_store.py:118-126: the window end, moved back to a sentence boundary
\* when the window does not reach the end of the text and a separator lies past
\* the window's midpoint; the first separator of the list that does wins.
WindowEnd(t, st, size) ==
    LET end0 == st + size
        w == Slice(t, st, end0)
        good == {k \in 1..Len(SEPARATORS) : RFind(w, SEPARATORS[k]) > size \div 2}
    IN  IF end0 < Len(t) /\ good # {}
        THEN LET k == CHOOSE x \in good : \A y \in good : x <= y
             IN  st + RFind(w, SEPARATORS[k]) + Len(SEPARATORS[k])
        ELSE end0

\* Mutant of NextStart: the forward-progress guard is missing.
NextStartNoGuard(st, end, overlap) == end - overlap

\* Mutant of NextStart: the guard lets the start stay where it is.
NextStartGuardNoProgress(st, end, overlap) == Max(end - overlap, st)

\* vector_store.py:133-134
NextStart(st, end, overlap) == Max(end - overlap, st + 1)

\* vector_store.py:129
KeepChunkLonger(n) == n > MIN_CHUNK_CHARS + 5
KeepChunk(n) == n > MIN_CHUNK_CHARS

\* The texts of the model: n ordinary characters, with up to two separators
\* written over them.
SepSpots == {27, 41, 57}
Placements ==
    {p \in SUBSET (SepSpots \X (1..Len(SEPARATORS))) :
        /\ Cardinality(p) <= 2
        /\ \A a, b \in p : a[1] = b[1] => a = b}
TextLens == {0, 55, 75, MaxTextLen}
TextOf(n, p) ==
    [i \in 1..n |->
        IF \E a \in p : i = a[1] + 1 THEN SEPARATORS[(CHOOSE a \in p : i = a[1] + 1)[2]][1]
        ELSE IF \E a \in p : i = a[1] + 2 THEN SEPARATORS[(CHOOSE a \in p : i = a[1] + 2)[2]][2]
        ELSE "a"]

\* The settings of the model: (chunk_size, chunk_overlap, max_content_length).
ChunkSettings ==
    UNION {{[chunk_size |-> s, chunk_overlap |-> o, max_content_length |-> m] :
                o \in {0, 7, 45, s - 1, s}, m \in {100, 12000}} :
            s \in {52, MaxChunkSize}}

ChunkParked ==
    /\ text = <<>>
    /\ settings = [chunk_size |-> 500, chunk_overlap |-> 100, max_content_length |-> 12000]
    /\ chunkPc = "done"
    /\ start = 0
    /\ chunks = <<>>
    /\ chunkIters = 0
    /\ prevStart = 0
    /\ dropped = <<>>
    /\ addEmbedded = 0
    /\ addWritten = 0

\* Settings() is about to be constructed from the values of the environment
\* (here `settings`); `text` is the content add will be called with.
ChunkInit ==
    /\ \E n \in TextLens, p \in Placements : text = TextOf(n, p)
    /\ settings \in ChunkSettings
    /\ chunkPc = "construct"
    /\ start = 0
    /\ chunks = <<>>
    /\ chunkIters = 0
    /\ prevStart = 0
    /\ dropped = <<>>
    /\ addEmbedded = 0
    /\ addWritten = 0

\* config.py:60-68: the model validator; TRUE when it returns self.
ValidateChunkSettingsLax(s) == s.chunk_overlap <= s.chunk_size
ValidateChunkSettings(s) == ~(s.chunk_overlap >= s.chunk_size)

\* config.py:87-95: Settings() either raises from the validator or yields
\* the cached settings object.
SettingsConstruct ==
    /\ chunkPc = "construct"
    /\ chunkPc' = IF ValidateChunkSettings(settings) THEN "configured" ELSE "rejected"
    /\ UNCHANGED <<text, settings, start, chunks, chunkIters, prevStart, dropped,
                   addEmbedded, addWritten, notChunk>>

\* vector_store.py:41-43: add is called. get_global_settings() hands out the
\* one settings object (config.py:101-111), whose fields hold whatever was
\* last assigned to them: the validator runs at construction only
\* (config.py:57-58 sets no validate_assignment, and model_post_init itself
\* assigns fields, config.py:75-84).
AddCall(s) ==
    /\ chunkPc = "configured"
    /\ settings' = s
    /\ chunkPc' = "call"
    /\ UNCHANGED <<text, start, chunks, chunkIters, prevStart, dropped,
                   addEmbedded, addWritten, notChunk>>

\* vector_store.py:107-115: the configuration check, the truncation, start = 0.
ChunkCall ==
    /\ chunkPc = "call"
    /\ IF settings.chunk_overlap >= settings.chunk_size
       THEN chunkPc' = "raised" /\ text' = text
       ELSE /\ chunkPc' = "loop"
            /\ text' = Slice(text, 0, settings.max_content_length)
    /\ UNCHANGED <<settings, start, chunks, chunkIters, prevStart, dropped,
                   addEmbedded, addWritten, notChunk>>

\* vector_store.py:117-134: one iteration of the while loop.
ChunkStep ==
    /\ chunkPc = "loop"
    /\ start < Len(text)
    /\ LET end == WindowEnd(text, start, settings.chunk_size)
           w == Slice(text, start, end)
           n == StripLen(w)
           first == start + LeadSpaces(w)
       IN  /\ chunks' = IF KeepChunk(n)
                        THEN Append(chunks, [from |-> first, to |-> first + n,
                                             wfrom |-> start, wto |-> Min(end, Len(text))])
                        ELSE chunks
           /\ dropped' = IF KeepChunk(n)
                         THEN dropped
                         ELSE Append(dropped, [wfrom |-> start, wto |-> Min(end, Len(text)),
                                               n |-> n])
           /\ start' = NextStart(start, end, settings.chunk_overlap)
    /\ prevStart' = start
    /\ chunkIters' = chunkIters + 1
    /\ UNCHANGED <<text, settings, chunkPc, addEmbedded, addWritten, notChunk>>

\* vector_store.py:117,136: the loop condition fails, the chunks are returned.
ChunkReturn ==
    /\ chunkPc = "loop"
    /\ start >= Len(text)
    /\ chunkPc' = "done"
    /\ UNCHANGED <<text, settings, start, chunks, chunkIters, prevStart, dropped,
                   addEmbedded, addWritten, notChunk>>

\* vector_store.py:44-49: `if not chunks: return 0`, else the chunks are
\* encoded.
AddEmbed ==
    /\ chunkPc = "done"
    /\ IF chunks = <<>>
       THEN chunkPc' = "returned" /\ addEmbedded' = addEmbedded
       ELSE chunkPc' = "embedded" /\ addEmbedded' = Len(chunks)
    /\ UNCHANGED <<text, settings, start, chunks, chunkIters, prevStart, dropped,
                   addWritten, notChunk>>

\* vector_store.py:51-56: collection.add stores the chunks and add returns
\* their number, or it raises and add re-raises.
AddWrite(ok) ==
    /\ chunkPc = "embedded"
    /\ IF ok
       THEN chunkPc' = "returned" /\ addWritten' = Len(chunks)
       ELSE chunkPc' = "failed" /\ addWritten' = addWritten
    /\ UNCHANGED <<text, settings, start, chunks, chunkIters, prevStart, dropped,
                   addEmbedded, notChunk>>

ChunkNext ==
    \/ SettingsConstruct
    \/ \E s \in ChunkSettings : AddCall(s)
    \/ ChunkCall
    \/ ChunkStep
    \/ ChunkReturn
    \/ AddEmbed
    \/ \E ok \in BOOLEAN : AddWrite(ok)

\* ------------------------------------------------------------------------
\* Extraction records (the values the cache stores)
\* ------------------------------------------------------------------------
\* Sentiment and confidence are held in tenths: 10 is 1.0, 2 is 0.2.
Rec(m, s, c, t) == [market |-> m, sentiment |-> s, confidence |-> c, topics |-> t]

\* sentiment.py:78, 94, 128: the default-neutral record (0.0, 0.2).
DEFAULT_RECORD == Rec("National", 0, 2, <<>>)

\* ------------------------------------------------------------------------
\* Sentiment extractor: _safe_float, _normalize_market, _validate, _parse
\* ------------------------------------------------------------------------
\* config.py:46-55: the market whitelist.
VALID_MARKETS ==
    {"National", "New York", "Los Angeles", "Chicago", "Houston", "Phoenix",
     "Philadelphia", "San Antonio", "San Diego", "Dallas", "San Jose",
     "Austin", "Jacksonville", "Fort Worth", "Columbus", "Charlotte",
     "San Francisco", "Indianapolis", "Seattle", "Denver", "Boston",
     "Nashville", "Detroit", "Portland", "Las Vegas", "Memphis",
     "Louisville", "Baltimore", "Milwaukee", "Albuquerque", "Tucson",
     "Fresno", "Sacramento", "Atlanta", "Miami", "Tampa", "Orlando",
     "Cleveland", "Raleigh", "Minneapolis", "St. Louis", "Pittsburgh"}

\* sentiment.py:134-141: the alias table, as (alias, canonical name) pairs.
ALIASES ==
    {<<"NYC", "New York">>, <<"New York City", "New York">>, <<"Manhattan", "New York">>,
     <<"LA", "Los Angeles">>, <<"L.A.", "Los Angeles">>,
     <<"SF", "San Francisco">>, <<"Bay Area", "San Francisco">>,
     <<"DC", "Washington DC">>, <<"D.C.", "Washington DC">>, <<"Washington", "Washington DC">>,
     <<"Philly", "Philadelphia">>, <<"Vegas", "Las Vegas">>,
     <<"DFW", "Dallas">>, <<"Dallas-Fort Worth", "Dallas">>}

AliasKeys == {a[1] : a \in ALIASES}

\* Mutant of NormalizeMarket: the alias table is not consulted.
NormalizeMarketNoAlias(m) == m

\* sentiment.py:132-142: aliases.get(market, market)
NormalizeMarket(m) ==
    IF m \in AliasKeys THEN (CHOOSE a \in ALIASES : a[1] = m)[2] ELSE m

\* Python floats: a finite value (in tenths), nan, or +inf.
Fin(v) == [k |-> "fin", v |-> v]
NaN == [k |-> "nan"]
PosInf == [k |-> "inf"]

\* Python's a < b on floats: every comparison with nan is False.
FLt(a, b) ==
    IF a.k = "nan" \/ b.k = "nan" THEN FALSE
    ELSE IF a.k = "inf" THEN FALSE
    ELSE IF b.k = "inf" THEN TRUE
    ELSE a.v < b.v

\* Python's min(a, b) and max(a, b): a, unless b is smaller (larger).
PyMin(a, b) == IF FLt(b, a) THEN b ELSE a
PyMax(a, b) == IF FLt(a, b) THEN b ELSE a

\* Mutant of Clamp: the upper bound is not applied.
ClampNoUpper(lo, hi, x) == PyMax(Fin(lo), x)

\* sentiment.py:114, 117 and ingestion.py:102, 105: max(lo, min(hi, x))
Clamp(lo, hi, x) == PyMax(Fin(lo), PyMin(Fin(hi), x))

\* The JSON values a numeric field of an extraction can hold.
Absent == [t |-> "absent"]
JNum(v) == [t |-> "num", v |-> v]
JStrNum(v) == [t |-> "strnum", v |-> v]
JNaN == [t |-> "nan"]
JInf == [t |-> "inf"]
JHugeInt == [t |-> "hugeint"]
JOther == [t |-> "other"]

Ok(x) == [raised |-> FALSE, val |-> x]
Raise(e) == [raised |-> TRUE, exc |-> e]

\* sentiment.py:26-31 (and ingestion.py:22-27): float(value), the default on
\* ValueError or TypeError. A number or a numeric string converts; nan and
\* 1e999 are floats already; a non-numeric string, null, a list or an object
\* gives the default; an integer beyond the float range makes float() raise
\* OverflowError, which is not caught here.
SafeFloat(x, default) ==
    CASE x.t = "num" -> Ok(Fin(x.v))
      [] x.t = "strnum" -> Ok(Fin(x.v))
      [] x.t = "nan" -> Ok(NaN)
      [] x.t = "inf" -> Ok(PosInf)
      [] x.t = "hugeint" -> Raise("OverflowError")
      [] x.t = "other" -> Ok(Fin(default))

\* ext.get(key, fallback): the field, or the fallback when the key is missing.
GetField(x, fallback) == IF x.t = "absent" THEN JNum(fallback) ELSE x

\* The JSON values the "market" field can hold: a string (perhaps padded with
\* whitespace) or null; str(x).strip() of them.
JStr(name) == [t |-> "str", s |-> name, pad |-> 0]
JPadded(name) == [t |-> "str", s |-> name, pad |-> 1]
JNull == [t |-> "null"]
StrStrip(x) ==
    CASE x.t = "absent" -> "National"
      [] x.t = "null" -> "None"
      [] x.t = "str" -> x.s

\* The JSON values the "topics" field can hold: a list of strings (given by
\* their lengths), or a value that cannot be iterated.
JTopics(lens) == [t |-> "list", lens |-> lens]
JNotIterable == [t |-> "notiter"]

\* sentiment.py:123: [str(t)[:50] for t in ext.get("topics", [])][:3]
MAX_TOPICS == 3
MAX_TOPIC_CHARS == 50
Topics(x) ==
    CASE x.t = "absent" -> Ok(<<>>)
      [] x.t = "notiter" -> Raise("TypeError")
      [] x.t = "list" ->
            Ok([i \in 1..Min(MAX_TOPICS, Len(x.lens)) |-> Min(x.lens[i], MAX_TOPIC_CHARS)])

\* An extraction item: a JSON object with the four fields, or something that
\* is not an object.
Item(m, sv, cv, tv) == [t |-> "obj", market |-> m, sentiment |-> sv, confidence |-> cv, topics |-> tv]
NonObject == [t |-> "nonobj"]

\* sentiment.py:112-124: the record built for an accepted item; the float
\* conversions and the topics comprehension may raise.
BuildRecord(market, it) ==
    LET sf == SafeFloat(GetField(it.sentiment, 0), 0)
        cf == SafeFloat(GetField(it.confidence, 5), 5)
        tp == Topics(it.topics)
    IN  IF sf.raised THEN sf
        ELSE IF cf.raised THEN cf
        ELSE IF tp.raised THEN tp
        ELSE Ok(Rec(market, Clamp(-10, 10, sf.val).v, Clamp(0, 10, cf.val).v, tp.val))

\* Mutant of ValidateFrom: a market already accepted is accepted again.
RECURSIVE ValidateFromNoSeen(_, _, _, _)
ValidateFromNoSeen(items, i, validated, seen) ==
    IF i > Len(items)
    THEN Ok(IF validated = <<>> THEN <<DEFAULT_RECORD>> ELSE validated)
    ELSE IF items[i].t # "obj" THEN Raise("AttributeError")
    ELSE LET market == NormalizeMarket(StrStrip(items[i].market))
         IN  IF market \notin VALID_MARKETS
             THEN ValidateFromNoSeen(items, i + 1, validated, seen)
             ELSE LET rec == BuildRecord(market, items[i])
                  IN  IF rec.raised THEN rec
                      ELSE ValidateFromNoSeen(items, i + 1, Append(validated, rec.val),
                                              seen \cup {market})

\* sentiment.py:96-130: _validate, item by item.
RECURSIVE ValidateFrom(_, _, _, _)
ValidateFrom(items, i, validated, seen) ==
    IF i > Len(items)
    THEN Ok(IF validated = <<>> THEN <<DEFAULT_RECORD>> ELSE validated)
    ELSE IF items[i].t # "obj" THEN Raise("AttributeError")
    ELSE LET market == NormalizeMarket(StrStrip(items[i].market))
         IN  IF market \notin VALID_MARKETS \/ market \in seen
             THEN ValidateFrom(items, i + 1, validated, seen)
             ELSE LET rec == BuildRecord(market, items[i])
                  IN  IF rec.raised THEN rec
                      ELSE ValidateFrom(items, i + 1, Append(validated, rec.val),
                                        seen \cup {market})

Validate(items) == ValidateFrom(items, 1, <<>>, {})

\* The JSON values a completion can decode to: an object (with or without
\* the key "extractions", whose value is a list or cannot be iterated), or a
\* value that is not an object (a list, a number, a string, null).
JObject(items) == [t |-> "obj", has |-> TRUE, iter |-> TRUE, items |-> items]
JObjectNoKey == [t |-> "obj", has |-> FALSE, iter |-> TRUE, items |-> <<>>]
JObjectBadKey == [t |-> "obj", has |-> TRUE, iter |-> FALSE, items |-> <<>>]
JNotObject == [t |-> "notobj"]

\* sentiment.py:84, 91: self._validate(data.get("extractions", []))
ValidateData(data) ==
    IF data.t # "obj" THEN Raise("AttributeError")
    ELSE IF ~data.iter THEN Raise("TypeError")
    ELSE Validate(data.items)

\* What the model call gives: an exception (rate limit or other), or a
\* completion whose content is None, text that is JSON, text with a JSON
\* object somewhere inside other text, or text with no JSON in it (the
\* empty string included).
CallRaises(rate) == [k |-> "raise", rate |-> rate]
ContentNone == [k |-> "none"]
ContentJson(v) == [k |-> "json", v |-> v]
ContentWrapped(v) == [k |-> "wrapped", v |-> v]
ContentGarbage == [k |-> "garbage"]

\* sentiment.py:80-94: _parse. Only JSONDecodeError of the direct decode is
\* caught; in the second tier every exception is.
Parse(content) ==
    CASE content.k = "none" -> Raise("TypeError")
      [] content.k = "json" -> ValidateData(content.v)
      [] content.k = "wrapped" ->
            IF ValidateData(content.v).raised THEN Ok(<<DEFAULT_RECORD>>)
            ELSE ValidateData(content.v)
      [] content.k = "garbage" -> Ok(<<DEFAULT_RECORD>>)

\* sentiment.py:55-68: one attempt: the call, then _parse of the completion.
Attempt(resp) ==
    IF resp.k = "raise"
    THEN Raise(IF resp.rate THEN "rate_limit" ELSE "APIError")
    ELSE Parse(resp)

\* ------------------------------------------------------------------------
\* File cache: get_cached / set_cached / _cleanup_old, one caller at a time
\* ------------------------------------------------------------------------
\* Number of distinct cache keys (contents).
NumKeys == 2
\* Last reading of the clock, in days.
MaxClock == 3
\* Largest cache_ttl_days and max_cache_files drawn for the settings.
MaxTtlDays == 2
MaxCacheFiles == 1

Keys == 1..NumKeys
NoFile == [exists |-> FALSE]
\* What get_cached returns: None, or the entry's result.
Miss == [hit |-> FALSE]
Hit(r) == [hit |-> TRUE, value |-> r]

\* json.dump({"ts": ts, "result": result}, f): the text of an entry, one token
\* for the opening brace, the timestamp, each record of the result and the
\* closing brace.
JsonDump(ts, result) ==
    <<[t |-> "open"], [t |-> "ts", ts |-> ts]>>
        \o [i \in 1..Len(result) |-> [t |-> "item", item |-> result[i]]]
        \o <<[t |-> "close"]>>

\* json.loads(text): the object of a well-formed entry, or the decode error.
JsonLoads(c) ==
    IF /\ Len(c) >= 3
       /\ c[1].t = "open"
       /\ c[2].t = "ts"
       /\ c[Len(c)].t = "close"
       /\ \A i \in 3..(Len(c) - 1) : c[i].t = "item"
    THEN [ok |-> TRUE, ts |-> c[2].ts, result |-> [i \in 1..(Len(c) - 3) |-> c[i + 2].item]]
    ELSE [ok |-> FALSE]

\* Mutant of Fresh: an entry whose age equals the TTL still counts as fresh.
FreshInclusive(age, ttl) == age <= ttl

\* cache.py:43-48: age_days < settings.cache_ttl_days
Fresh(age, ttl) == age < ttl

\* cache.py:112-132: the timestamp _cleanup_old ranks a file by: the entry's
\* own "ts", or the file's mtime when the entry cannot be decoded.
RankTs(f) == IF JsonLoads(f.data).ok THEN JsonLoads(f.data).ts ELSE f.mtime

FilesOf(dir) == {k \in DOMAIN dir : dir[k].exists}

\* cache.py:94-149: the directories _cleanup_old can leave. Nothing happens
\* at or below max_cache_files; above it the len(files) - max oldest files
\* are unlinked (files with equal timestamps go in directory-listing order,
\* which is arbitrary).
CleanupOld(dir, maxFiles) ==
    LET files == FilesOf(dir)
        n == Cardinality(files)
    IN  IF n <= maxFiles THEN {dir}
        ELSE {[k \in DOMAIN dir |-> IF k \in del THEN NoFile ELSE dir[k]] :
                del \in {d \in SUBSET files :
                            /\ Cardinality(d) = n - maxFiles
                            /\ \A a \in d, b \in files \ d :
                                  RankTs(dir[a]) <= RankTs(dir[b])}}

\* The results the callers of the model store.
CacheResults ==
    { <<DEFAULT_RECORD>>,
      <<Rec("New York", 10, 0, <<1>>), Rec("National", -3, 5, <<>>)>> }

CacheSettings ==
    {[cache_ttl_days |-> d, max_cache_files |-> m] : d \in 1..MaxTtlDays, m \in 1..MaxCacheFiles}

NoHist == [phase |-> "none"]

CacheParked ==
    /\ cacheDir = [k \in Keys |-> NoFile]
    /\ clock = 0
    /\ cacheCfg = [cache_ttl_days |-> 7, max_cache_files |-> 500]
    /\ cacheHist = NoHist
    /\ insertedKeys = {}
    /\ onlySets = TRUE

\* The directory starts empty, or with one file a crashed writer left empty.
CacheInit ==
    /\ cacheDir \in {[k \in Keys |-> NoFile],
                     [k \in Keys |-> IF k = NumKeys
                                     THEN [exists |-> TRUE, data |-> <<>>, mtime |-> 0]
                                     ELSE NoFile]}
    /\ clock = 0
    /\ cacheCfg \in CacheSettings
    /\ cacheHist = NoHist
    /\ insertedKeys = {}
    /\ onlySets = TRUE

\* cache.py:71-91: set_cached(content, result), the sweep and then the write.
SetCachedDirs(dir, k, r, now, maxFiles) ==
    {[swept EXCEPT ![k] = [exists |-> TRUE, data |-> JsonDump(now, r), mtime |-> now]] :
        swept \in CleanupOld(dir, maxFiles)}

SetCached(k, r) ==
    /\ cacheDir' \in SetCachedDirs(cacheDir, k, r, clock, cacheCfg.max_cache_files)
    /\ cacheHist' = [phase |-> "set", key |-> k, result |-> r, ts |-> clock]
    /\ insertedKeys' = insertedKeys \cup {k}
    /\ UNCHANGED <<clock, cacheCfg, onlySets, notCache>>

\* Mutant of GetCachedResult: a hit removes the entry it returns.
GetCachedResultConsumes(dir, k, now, ttl) ==
    IF ~dir[k].exists THEN [ret |-> Miss, dir |-> dir]
    ELSE LET data == JsonLoads(dir[k].data)
         IN  IF data.ok /\ Fresh(now - data.ts, ttl)
             THEN [ret |-> Hit(data.result), dir |-> [dir EXCEPT ![k] = NoFile]]
             ELSE [ret |-> Miss, dir |-> [dir EXCEPT ![k] = NoFile]]

\* cache.py:33-68: the value get_cached(content) returns and the directory it
\* leaves: a miss for no file; the stored result while fresh; a miss and the
\* file unlinked for an expired or undecodable entry.
GetCachedResult(dir, k, now, ttl) ==
    IF ~dir[k].exists THEN [ret |-> Miss, dir |-> dir]
    ELSE LET data == JsonLoads(dir[k].data)
         IN  IF data.ok /\ Fresh(now - data.ts, ttl)
             THEN [ret |-> Hit(data.result), dir |-> dir]
             ELSE [ret |-> Miss, dir |-> [dir EXCEPT ![k] = NoFile]]

GetCached(k) ==
    LET out == GetCachedResult(cacheDir, k, clock, cacheCfg.cache_ttl_days)
    IN  /\ cacheDir' = out.dir
        /\ cacheHist' =
              IF cacheHist.phase = "set" /\ cacheHist.key = k
              THEN [cacheHist EXCEPT !.phase = "setget"] @@ [ret |-> out.ret, readAt |-> clock]
              ELSE NoHist
        /\ onlySets' = (onlySets /\ out.dir = cacheDir)
        /\ UNCHANGED <<clock, cacheCfg, insertedKeys, notCache>>

\* Time passes between two calls.
CacheTick ==
    /\ clock < MaxClock
    /\ clock' = clock + 1
    /\ UNCHANGED <<cacheDir, cacheCfg, cacheHist, insertedKeys, onlySets, notCache>>

CacheNext ==
    \/ \E k \in Keys, r \in CacheResults : SetCached(k, r)
    \/ \E k \in Keys : GetCached(k)
    \/ CacheTick

\* ------------------------------------------------------------------------
\* File cache: concurrent set_cached / get_cached on one key
\* ------------------------------------------------------------------------
\* Concurrent writers and readers of the key.
NumWriters == 2
NumReaders == 1

Writers == 1..NumWriters
Readers == 1..NumReaders
Procs == 1..NumWriters
\* Inode 0 is "no file"; every open(..., 'w') of a missing file makes a new one.
Inodes == 1..(NumWriters + 1)

\* What each writer stores: results of different lengths.
WriterResult(w) ==
    IF w % 2 = 1 THEN <<DEFAULT_RECORD>>
    ELSE <<Rec("New York", 10, 0, <<1>>), Rec("National", -3, 5, <<>>)>>

\* write(2) of `data` at offset 0 of a file holding `old`: the bytes past
\* len(data) stay.
WriteAt0(old, data) ==
    IF Len(data) >= Len(old) THEN data
    ELSE data \o SubSeq(old, Len(data) + 1, Len(old))

WIdle == [pc |-> "start", fd |-> 0, buf |-> <<>>]
RIdle == [pc |-> "start", data |-> <<>>, ret |-> Miss]

CcParked ==
    /\ ccDir = 0
    /\ ccInodes = [i \in Inodes |-> <<>>]
    /\ ccProc = [w \in Writers |-> 1]
    /\ ccMutex = [p \in Procs |-> 0]
    /\ ccFlock = [i \in Inodes |-> 0]
    /\ ccW = [w \in Writers |-> WIdle]
    /\ ccR = [r \in Readers |-> RIdle]

\* The writers are threads of one process or run in separate processes; the
\* file is absent, or holds a complete entry an earlier call wrote.
CcInit ==
    /\ \/ ccDir = 0 /\ ccInodes = [i \in Inodes |-> <<>>]
       \/ ccDir = 1 /\ ccInodes = [i \in Inodes |->
                                     IF i = 1 THEN JsonDump(0, <<DEFAULT_RECORD>>) ELSE <<>>]
    /\ ccProc \in [Writers -> Procs]
    /\ ccMutex = [p \in Procs |-> 0]
    /\ ccFlock = [i \in Inodes |-> 0]
    /\ ccW = [w \in Writers |-> WIdle]
    /\ ccR = [r \in Readers |-> RIdle]

\* cache.py:76-78: `with _cache_lock:` entered, then _cleanup_old(), which
\* leaves a directory of one file alone (max_cache_files >= 1).
WLockAndSweep(w) ==
    /\ ccW[w].pc = "start"
    /\ ccMutex[ccProc[w]] = 0
    /\ ccMutex' = [ccMutex EXCEPT ![ccProc[w]] = w]
    /\ ccW' = [ccW EXCEPT ![w].pc = "swept"]
    /\ UNCHANGED <<ccDir, ccInodes, ccProc, ccFlock, ccR, notCc>>

\* cache.py:81: open(cache_file, 'w') creates the file or truncates it, before
\* any lock on the file is taken.
WOpen(w) ==
    /\ ccW[w].pc = "swept"
    /\ IF ccDir = 0
       THEN LET free == Inodes \ {ccW[v].fd : v \in Writers}
                i == CHOOSE x \in free : \A y \in free : x <= y
            IN  /\ ccDir' = i
                /\ ccInodes' = [ccInodes EXCEPT ![i] = <<>>]
                /\ ccW' = [ccW EXCEPT ![w].pc = "opened", ![w].fd = i]
       ELSE /\ ccInodes' = [ccInodes EXCEPT ![ccDir] = <<>>]
            /\ ccW' = [ccW EXCEPT ![w].pc = "opened", ![w].fd = ccDir]
            /\ ccDir' = ccDir
    /\ UNCHANGED <<ccProc, ccMutex, ccFlock, ccR, notCc>>

\* cache.py:82: fcntl.flock(f.fileno(), LOCK_EX) blocks while another open
\* file of the same inode holds the lock.
WFlock(w) ==
    /\ ccW[w].pc = "opened"
    /\ ccFlock[ccW[w].fd] = 0
    /\ ccFlock' = [ccFlock EXCEPT ![ccW[w].fd] = w]
    /\ ccW' = [ccW EXCEPT ![w].pc = "flocked"]
    /\ UNCHANGED <<ccDir, ccInodes, ccProc, ccMutex, ccR, notCc>>

\* cache.py:83-86: json.dump writes the entry into the file object's buffer
\* (an entry is far smaller than the buffer), then LOCK_UN.
WDumpAndUnflock(w) ==
    /\ ccW[w].pc = "flocked"
    /\ ccW' = [ccW EXCEPT ![w].pc = "dumped", ![w].buf = JsonDump(0, WriterResult(w))]
    /\ ccFlock' = [ccFlock EXCEPT ![ccW[w].fd] = 0]
    /\ UNCHANGED <<ccDir, ccInodes, ccProc, ccMutex, ccR, notCc>>

\* cache.py:81 (end of `with open`) and :76 (end of `with _cache_lock`): close
\* flushes the buffer to the open file at offset 0, then the mutex is released.
WCloseAndUnlock(w) ==
    /\ ccW[w].pc = "dumped"
    /\ ccInodes' = [ccInodes EXCEPT ![ccW[w].fd] = WriteAt0(@, ccW[w].buf)]
    /\ ccMutex' = [ccMutex EXCEPT ![ccProc[w]] = 0]
    /\ ccW' = [ccW EXCEPT ![w].pc = "done"]
    /\ UNCHANGED <<ccDir, ccProc, ccFlock, ccR, notCc>>

\* cache.py:38-39: cache_file.exists()
RExists(r) ==
    /\ ccR[r].pc = "start"
    /\ ccR' = [ccR EXCEPT ![r].pc = IF ccDir = 0 THEN "done" ELSE "read"]
    /\ UNCHANGED <<ccDir, ccInodes, ccProc, ccMutex, ccFlock, ccW, notCc>>

\* cache.py:42-49, 63-64: read_text() (no lock is taken) and json.loads; a
\* fresh entry is returned, a vanished file is a miss, anything else goes on
\* to unlink.
RRead(r) ==
    /\ ccR[r].pc = "read"
    /\ IF ccDir = 0
       THEN ccR' = [ccR EXCEPT ![r].pc = "done"]
       ELSE LET data == JsonLoads(ccInodes[ccDir])
            IN  IF data.ok /\ Fresh(0 - data.ts, 1)
                THEN ccR' = [ccR EXCEPT ![r].pc = "done", ![r].data = ccInodes[ccDir],
                                        ![r].ret = Hit(data.result)]
                ELSE ccR' = [ccR EXCEPT ![r].pc = "unlink", ![r].data = ccInodes[ccDir]]
    /\ UNCHANGED <<ccDir, ccInodes, ccProc, ccMutex, ccFlock, ccW, notCc>>

\* cache.py:51-62: cache_file.unlink() removes whatever the name refers to
\* now (an OSError for a vanished file is swallowed); None is returned.
RUnlink(r) ==
    /\ ccR[r].pc = "unlink"
    /\ ccDir' = 0
    /\ ccR' = [ccR EXCEPT ![r].pc = "done"]
    /\ UNCHANGED <<ccInodes, ccProc, ccMutex, ccFlock, ccW, notCc>>

CcNext ==
    \/ \E w \in Writers : WLockAndSweep(w)
    \/ \E w \in Writers : WOpen(w)
    \/ \E w \in Writers : WFlock(w)
    \/ \E w \in Writers : WDumpAndUnflock(w)
    \/ \E w \in Writers : WCloseAndUnlock(w)
    \/ \E r \in Readers : RExists(r)
    \/ \E r \in Readers : RRead(r)
    \/ \E r \in Readers : RUnlink(r)

\* ------------------------------------------------------------------------
\* Sentiment extractor: extract (cache lookup, three attempts, fallback)
\* ------------------------------------------------------------------------
\* sentiment.py:53: for attempt in range(3)
MAX_ATTEMPTS == 3

RECURSIVE Pow2(_)
Pow2(n) == IF n = 0 THEN 1 ELSE 2 * Pow2(n - 1)

\* Mutant of Backoff: the exponent is the attempt number counted from 1.
BackoffFromOne(exc, attempt) ==
    IF exc = "rate_limit" THEN 5 * (attempt + 1) ELSE Pow2(attempt + 1)

\* sentiment.py:72-76: the seconds slept after a failed attempt.
Backoff(exc, attempt) ==
    IF exc = "rate_limit" THEN 5 * (attempt + 1) ELSE Pow2(attempt)

\* Mutant of ExtractCatches: only a JSON decode error is handled.
ExtractCatchesDecodeOnly(exc) == exc = "JSONDecodeError"

\* sentiment.py:71: except Exception
ExtractCatches(exc) ==
    exc \in {"rate_limit", "APIError", "TypeError", "AttributeError", "OverflowError",
             "JSONDecodeError"}

\* The fields a numeric, market or topics entry is drawn from.
MarketVals ==
    {Absent, JNull, JStr("NYC"), JPadded("New York"), JStr("DC"), JStr("Atlantis"),
     JStr("National"), JStr("Chicago")}
SentimentVals ==
    {Absent, JNum(-50), JNum(3), JNum(50), JStrNum(7), JNaN, JInf, JHugeInt, JOther}
ConfidenceVals ==
    {Absent, JNum(-10), JNum(8), JNum(20), JNaN, JHugeInt, JOther}
TopicVals ==
    {Absent, JTopics(<<1>>), JTopics(<<60, 2, 2, 2>>), JNotIterable}

FirstItems ==
    {Item(m, JNum(3), JNum(8), JTopics(<<1>>)) : m \in MarketVals}
        \cup {Item(JStr("NYC"), sv, JNum(-10), JTopics(<<1>>)) : sv \in SentimentVals}
        \cup {Item(JStr("NYC"), JNum(50), cv, JTopics(<<1>>)) : cv \in ConfidenceVals}
        \cup {Item(JStr("NYC"), JNum(3), JNum(8), tv) : tv \in TopicVals}
        \cup {NonObject}
SecondItems ==
    {Item(JStr("New York"), JNum(-3), JNum(5), Absent),
     Item(JStr("Atlantis"), JHugeInt, JOther, JNotIterable),
     NonObject}
ItemLists ==
    {<<>>} \cup {<<a>> : a \in FirstItems}
           \cup {<<a, b>> : a \in FirstItems, b \in SecondItems}

\* What one call of the model can give.
ModelResponses ==
    {CallRaises(TRUE), CallRaises(FALSE), ContentNone, ContentGarbage,
     ContentJson(JNotObject), ContentJson(JObjectNoKey), ContentJson(JObjectBadKey),
     ContentWrapped(JObjectNoKey), ContentWrapped(JObjectBadKey)}
        \cup {ContentJson(JObject(l)) : l \in ItemLists}
        \cup {ContentWrapped(JObject(<<a>>)) : a \in FirstItems}

NoResp == [k |-> "nocall"]

ExIdle ==
    /\ exPc = "idle"
    /\ exKey = 0
    /\ exAttempt = 0
    /\ exResp = NoResp
    /\ exExcs = <<>>
    /\ exSleeps = <<>>
    /\ exFromCache = FALSE
    /\ exResult = <<>>

\* The settings the extractor runs under.
ExtractSettings == {[cache_ttl_days |-> 1, max_cache_files |-> 1]}

\* The cache directory starts empty, or holds a result stored earlier.
ExInit ==
    /\ ExIdle
    /\ cacheDir \in {[k \in Keys |-> NoFile]}
          \cup {[k \in Keys |-> IF k = 1
                                THEN [exists |-> TRUE, data |-> JsonDump(0, r), mtime |-> 0]
                                ELSE NoFile] : r \in CacheResults}
    /\ clock = 0
    /\ cacheCfg \in ExtractSettings
    /\ cacheHist = NoHist
    /\ insertedKeys = {}
    /\ onlySets = TRUE

\* sentiment.py:45-50: the cache lookup; a cached (non-empty) result is
\* returned at once.
ExtractCall(k) ==
    /\ exPc = "idle"
    /\ LET out == GetCachedResult(cacheDir, k, clock, cacheCfg.cache_ttl_days)
           found == out.ret.hit /\ out.ret.value # <<>>
       IN  /\ cacheDir' = out.dir
           /\ exPc' = IF found THEN "returned" ELSE "calling"
           /\ exFromCache' = found
           /\ exResult' = IF found THEN out.ret.value ELSE <<>>
    /\ exKey' = k
    /\ exAttempt' = 0
    /\ exResp' = NoResp
    /\ exExcs' = <<>>
    /\ exSleeps' = <<>>
    /\ UNCHANGED <<clock, cacheCfg, cacheHist, insertedKeys, onlySets, notEx>>

\* Mutant of ExtractAttempt: the fallback record of the last failed attempt
\* is cached like a parsed result.
ExtractAttemptCachesFallback(resp) ==
    /\ exPc = "calling"
    /\ exResp' = resp
    /\ LET out == Attempt(resp)
       IN  IF ~out.raised
           THEN /\ cacheDir' \in SetCachedDirs(cacheDir, exKey, out.val, clock,
                                               cacheCfg.max_cache_files)
                /\ exPc' = "returned"
                /\ exResult' = out.val
                /\ UNCHANGED <<exAttempt, exExcs, exSleeps>>
           ELSE IF ~ExtractCatches(out.exc)
           THEN /\ exPc' = "raised"
                /\ exExcs' = Append(exExcs, out.exc)
                /\ UNCHANGED <<cacheDir, exAttempt, exSleeps, exResult>>
           ELSE /\ exExcs' = Append(exExcs, out.exc)
                /\ exSleeps' = Append(exSleeps, Backoff(out.exc, exAttempt))
                /\ exAttempt' = exAttempt + 1
                /\ exPc' = IF exAttempt + 1 = MAX_ATTEMPTS THEN "returned" ELSE "calling"
                /\ exResult' = IF exAttempt + 1 = MAX_ATTEMPTS THEN <<DEFAULT_RECORD>> ELSE <<>>
                /\ IF exAttempt + 1 = MAX_ATTEMPTS
                   THEN cacheDir' \in SetCachedDirs(cacheDir, exKey, <<DEFAULT_RECORD>>, clock,
                                                    cacheCfg.max_cache_files)
                   ELSE UNCHANGED cacheDir
    /\ UNCHANGED <<exKey, exFromCache, clock, cacheCfg, cacheHist, insertedKeys, onlySets, notEx>>

\* sentiment.py:53-78: one pass of the retry loop. The parsed result is
\* cached and returned; a handled exception sleeps and goes on to the next
\* attempt, and after the last one to the fallback record.
ExtractAttempt(resp) ==
    /\ exPc = "calling"
    /\ exResp' = resp
    /\ LET out == Attempt(resp)
       IN  IF ~out.raised
           THEN /\ cacheDir' \in SetCachedDirs(cacheDir, exKey, out.val, clock,
                                               cacheCfg.max_cache_files)
                /\ exPc' = "returned"
                /\ exResult' = out.val
                /\ UNCHANGED <<exAttempt, exExcs, exSleeps>>
           ELSE IF ~ExtractCatches(out.exc)
           THEN /\ exPc' = "raised"
                /\ exExcs' = Append(exExcs, out.exc)
                /\ UNCHANGED <<cacheDir, exAttempt, exSleeps, exResult>>
           ELSE /\ exExcs' = Append(exExcs, out.exc)
                /\ exSleeps' = Append(exSleeps, Backoff(out.exc, exAttempt))
                /\ exAttempt' = exAttempt + 1
                /\ exPc' = IF exAttempt + 1 = MAX_ATTEMPTS THEN "returned" ELSE "calling"
                /\ exResult' = IF exAttempt + 1 = MAX_ATTEMPTS THEN <<DEFAULT_RECORD>> ELSE <<>>
                /\ UNCHANGED cacheDir
    /\ UNCHANGED <<exKey, exFromCache, clock, cacheCfg, cacheHist, insertedKeys, onlySets, notEx>>

\* The caller takes the result; the extractor is ready for the next call.
ExtractDone ==
    /\ exPc = "returned"
    /\ exPc' = "idle"
    /\ exKey' = 0
    /\ exAttempt' = 0
    /\ exResp' = NoResp
    /\ exExcs' = <<>>
    /\ exSleeps' = <<>>
    /\ exFromCache' = FALSE
    /\ exResult' = <<>>
    /\ UNCHANGED <<cacheVars, notEx>>

\* Time passes between two calls of extract.
ExtractTick ==
    /\ exPc = "idle"
    /\ clock < MaxClock
    /\ clock' = clock + 1
    /\ UNCHANGED <<cacheDir, cacheCfg, cacheHist, insertedKeys, onlySets, exVars, notEx>>

\* The contents extract is called with.
ExtractKeys == {1}

ExNext ==
    \/ \E k \in ExtractKeys : ExtractCall(k)
    \/ \E resp \in ModelResponses : ExtractAttempt(resp)
    \/ ExtractDone
    \/ ExtractTick

\* ------------------------------------------------------------------------
\* Ingestion: process_urls (session, index, extraction, anomaly check)
\* ------------------------------------------------------------------------
\* Number of distinct urls and of distinct article contents.
NumIngestUrls == 2
NumContents == 2
\* Longest `urls` argument.
MaxBatch == 2

IngUrls == 1..NumIngestUrls
Contents == 1..NumContents

\* collector.py: content_hash, the SHA-256 of the first 5000 characters.
\* Contents 1 and 2 differ there; content c + 2 shares them with content c
\* and differs later.
ContentHash(c) == ((c - 1) % 2) + 1

\* cache.py:29-30: _get_key, the digest of the content handed to extract.
CacheKey(c) == c

\* The number of chunks _chunk_text cuts the content into.
ChunksOf(c) == 1 + (c % 2)

\* Mutant of CollectFrom: no document is dropped for its fingerprint.
RECURSIVE CollectFromKeepsAll(_, _, _, _, _)
CollectFromKeepsAll(urls, fetched, i, seen, out) ==
    IF i > Len(urls) THEN out
    ELSE IF fetched[i] = 0
    THEN CollectFromKeepsAll(urls, fetched, i + 1, seen, out)
    ELSE CollectFromKeepsAll(urls, fetched, i + 1, seen,
                             Append(out, [url |-> urls[i], content |-> fetched[i]]))

\* collector.py:55-63: the fetched documents in url order, without the
\* failed fetches (0) and without a content hash seen earlier in the batch.
RECURSIVE CollectFrom(_, _, _, _, _)
CollectFrom(urls, fetched, i, seen, out) ==
    IF i > Len(urls) THEN out
    ELSE IF fetched[i] = 0 \/ ContentHash(fetched[i]) \in seen
    THEN CollectFrom(urls, fetched, i + 1, seen, out)
    ELSE CollectFrom(urls, fetched, i + 1, seen \cup {ContentHash(fetched[i])},
                     Append(out, [url |-> urls[i], content |-> fetched[i]]))

Collected(urls, fetched) == CollectFrom(urls, fetched, 1, {}, <<>>)

\* Mutant of AddChunkCount: the counter holds the chunks of the last article.
AddChunkCountLast(total, n) == n

\* ingestion.py:83: total_chunks += chunks
AddChunkCount(total, n) == total + n

\* The session with nothing added, and no call of detect_anomaly made in it.
EmptyTx ==
    [articles |-> <<>>, markets |-> {}, flushed |-> <<>>, pending |-> <<>>, alerts |-> {},
     detects |-> <<>>]

\* Mutant of Rollback: the session keeps what the failed article added.
RollbackKeeps(t) == t

\* ingestion.py:135: db.rollback()
Rollback(t) == EmptyTx

\* Mutant of DupExists: only the url is looked up.
DupExistsUrlOnly(doc, arts) == \E i \in 1..Len(arts) : arts[i].url = doc.url

\* ingestion.py:57-59: the duplicate query, by url or by content hash.
DupExists(doc, arts) ==
    \E i \in 1..Len(arts) : arts[i].url = doc.url \/ arts[i].hash = ContentHash(doc.content)

\* models.py:22, 27: the unique constraints of articles, checked at flush.
ViolatesUnique(art, arts) ==
    \E i \in 1..Len(arts) : arts[i].url = art.url \/ arts[i].hash = art.hash

\* db.flush(): the pending rows are sent to the database.
Flush(t) == [t EXCEPT !.flushed = @ \o t.pending, !.pending = <<>>]

\* ingestion.py:139-147: _get_or_create_market
GetOrCreateMarket(t, markets, name) ==
    IF name \in markets \cup t.markets THEN t
    ELSE Flush([t EXCEPT !.markets = @ \cup {name}])

RECURSIVE SumSeq(_)
SumSeq(q) == IF q = <<>> THEN 0 ELSE Head(q) + SumSeq(Tail(q))

Sq(x) == x * x
Abs(x) == IF x < 0 THEN -x ELSE x

SelectScoresAnyMarket(rows, name, since) ==
    LET sel == SelectSeq(rows, LAMBDA r : r.day >= since)
    IN  [i \in 1..Len(sel) |-> sel[i].score]
SelectScores(rows, name, since) ==
    LET sel == SelectSeq(rows, LAMBDA r : r.market = name /\ r.day >= since)
    IN  [i \in 1..Len(sel) |-> sel[i].score]

\* trends.py:121-154: detect_anomaly over the rows the session's queries see
\* (committed and flushed; the session does not autoflush). Scores are in
\* tenths; with n scores of sum S over 30 days and m scores of sum R over 3
\* days, z > 2 is |R/m - S/n| > 2 * max(sqrt(variance), 0.1).
MIN_SCORES == 5
MONTH_DAYS == 30
RECENT_DAYS == 3
DetectAnomalyNoFloor(rows, markets, name, now) ==
    LET scores == SelectScores(rows, name, now - MONTH_DAYS)
        recent == SelectScores(rows, name, now - RECENT_DAYS)
        n == Len(scores)
        m == Len(recent)
        S == SumSeq(scores)
        R == SumSeq(recent)
        V == n * SumSeq([i \in 1..n |-> Sq(scores[i])]) - Sq(S)
    IN  /\ name \in markets
        /\ n >= MIN_SCORES
        /\ m > 0
        /\ Sq(R * n - S * m) > 4 * Sq(m) * V
DetectAnomaly(rows, markets, name, now) ==
    LET scores == SelectScores(rows, name, now - MONTH_DAYS)
        recent == SelectScores(rows, name, now - RECENT_DAYS)
        n == Len(scores)
        m == Len(recent)
        S == SumSeq(scores)
        R == SumSeq(recent)
        V == n * SumSeq([i \in 1..n |-> Sq(scores[i])]) - Sq(S)
    IN  /\ name \in markets
        /\ n >= MIN_SCORES
        /\ m > 0
        /\ IF V >= Sq(n)
           THEN Sq(R * n - S * m) > 4 * Sq(m) * V
           ELSE Abs(R * n - S * m) > 2 * m * n

\* Mutant of PersistFrom: an Alert is added whatever detect_anomaly returned.
RECURSIVE PersistFromAlertsUnasked(_, _, _, _, _, _)
PersistFromAlertsUnasked(exts, i, t, checked, art, now) ==
    IF i > Len(exts) THEN t
    ELSE IF exts[i].market \notin VALID_MARKETS
    THEN PersistFromAlertsUnasked(exts, i + 1, t, checked, art, now)
    ELSE LET e == exts[i]
             t1 == GetOrCreateMarket(t, dbMarkets, e.market)
             row == [article |-> art, market |-> e.market,
                     score |-> Clamp(-10, 10, SafeFloat(JNum(e.sentiment), 0).val).v,
                     confidence |-> Clamp(0, 10, SafeFloat(JNum(e.confidence), 5).val).v,
                     topics |-> e.topics, day |-> now]
             t2 == [t1 EXCEPT !.pending = Append(@, row)]
             anomaly == DetectAnomaly(dbSentiments \o t2.flushed,
                                      dbMarkets \cup t2.markets, e.market, now)
             own == \E k \in 1..Len(dbSentiments \o t2.flushed) :
                        (dbSentiments \o t2.flushed)[k] = row
             t3 == IF e.market \notin checked
                   THEN [t2 EXCEPT !.detects = Append(@, [market |-> e.market, article |-> art,
                                                          result |-> anomaly, own |-> own]),
                                   !.alerts = @ \cup {[market |-> e.market, article |-> art]}]
                   ELSE t2
         IN  PersistFromAlertsUnasked(exts, i + 1, t3, checked \cup {e.market}, art, now)

\* ingestion.py:91-127: the loop over the extractions of one article. The
\* Sentiment row is added to the session and not flushed (models.py:122,
\* autoflush=False), so the queries of detect_anomaly read the committed rows
\* and those an earlier flush of the transaction sent; `own` records whether
\* the row just added was among them.
RECURSIVE PersistFrom(_, _, _, _, _, _)
PersistFrom(exts, i, t, checked, art, now) ==
    IF i > Len(exts) THEN t
    ELSE IF exts[i].market \notin VALID_MARKETS
    THEN PersistFrom(exts, i + 1, t, checked, art, now)
    ELSE LET e == exts[i]
             t1 == GetOrCreateMarket(t, dbMarkets, e.market)
             row == [article |-> art, market |-> e.market,
                     score |-> Clamp(-10, 10, SafeFloat(JNum(e.sentiment), 0).val).v,
                     confidence |-> Clamp(0, 10, SafeFloat(JNum(e.confidence), 5).val).v,
                     topics |-> e.topics, day |-> now]
             t2 == [t1 EXCEPT !.pending = Append(@, row)]
             anomaly == DetectAnomaly(dbSentiments \o t2.flushed,
                                      dbMarkets \cup t2.markets, e.market, now)
             own == \E k \in 1..Len(dbSentiments \o t2.flushed) :
                        (dbSentiments \o t2.flushed)[k] = row
             t3 == IF e.market \notin checked
                   THEN [t2 EXCEPT !.detects = Append(@, [market |-> e.market, article |-> art,
                                                          result |-> anomaly, own |-> own]),
                                   !.alerts = IF anomaly
                                              THEN @ \cup {[market |-> e.market, article |-> art]}
                                              ELSE @]
                   ELSE t2
         IN  PersistFrom(exts, i + 1, t3, checked \cup {e.market}, art, now)

\* Rows left by earlier articles: none, or a market with a month of neutral
\* scores, one bullish score in the last three days and one older than a month.
OldArticle == [url |-> 0, hash |-> 0]
OldRow(s, d) ==
    [article |-> OldArticle, market |-> "New York", score |-> s, confidence |-> 5, topics |-> <<>>, day |-> d]
Histories ==
    {<<>>,
     <<OldRow(-10, -40), OldRow(0, -10), OldRow(0, -10), OldRow(0, -10), OldRow(0, -10),
       OldRow(0, -10), OldRow(10, -1)>>}

NoSnap == [articles |-> <<>>, markets |-> {}, sentiments |-> <<>>, alerts |-> {}, index |-> {}]
NoRet == [processed |-> -1]
Snap == [articles |-> dbArticles, markets |-> dbMarkets, sentiments |-> dbSentiments,
         alerts |-> dbAlerts, index |-> index]

IngIdle ==
    /\ ingPc = "idle"
    /\ ingUrls = <<>>
    /\ ingFetched = <<>>
    /\ ingBatch = <<>>
    /\ ingIdx = 0
    /\ processed = 0
    /\ totalChunks = 0
    /\ ingOutcomes = <<>>
    /\ ingSnap = NoSnap
    /\ ingFault = "none"
    /\ ingResp = NoResp
    /\ ingDetects = <<>>
    /\ ingIndexed = <<>>
    /\ ingRet = NoRet

\* config.py:34-35: the defaults, and settings whose overlap was set to the
\* size after construction.
IngSettings ==
    {[chunk_size |-> 500, chunk_overlap |-> 100],
     [chunk_size |-> 100, chunk_overlap |-> 100]}

IngParked ==
    /\ IngIdle
    /\ ingSettings = [chunk_size |-> 500, chunk_overlap |-> 100]
    /\ dbArticles = <<>>
    /\ dbMarkets = {}
    /\ dbSentiments = <<>>
    /\ dbAlerts = {}
    /\ tx = EmptyTx
    /\ index = {}

IngInit ==
    /\ IngIdle
    /\ ingSettings \in IngSettings
    /\ \E h \in Histories :
          /\ dbSentiments = h
          /\ dbArticles = IF h = <<>> THEN <<>> ELSE <<OldArticle>>
          /\ dbMarkets = IF h = <<>> THEN {} ELSE {"New York"}
    /\ dbAlerts = {}
    /\ tx = EmptyTx
    /\ index = {}
    /\ ExIdle
    /\ cacheDir = [k \in Contents |-> NoFile]
    /\ clock = 0
    /\ cacheCfg = [cache_ttl_days |-> 7, max_cache_files |-> 500]
    /\ cacheHist = NoHist
    /\ insertedKeys = {}
    /\ onlySets = TRUE

\* The extractor's variables after extract() has returned to its caller.
ExReset ==
    /\ exPc' = "idle"
    /\ exKey' = 0
    /\ exAttempt' = 0
    /\ exResp' = NoResp
    /\ exExcs' = <<>>
    /\ exSleeps' = <<>>
    /\ exFromCache' = FALSE
    /\ exResult' = <<>>

\* ingestion.py:40-51: the call, collect(), and the early return when
\* nothing was collected.
ProcessUrls(urls, fetched) ==
    /\ ingPc = "idle"
    /\ ingUrls' = urls
    /\ ingFetched' = fetched
    /\ ingBatch' = Collected(urls, fetched)
    /\ ingIdx' = 1
    /\ processed' = 0
    /\ totalChunks' = 0
    /\ ingOutcomes' = <<>>
    /\ ingSnap' = Snap
    /\ ingFault' = "none"
    /\ ingResp' = NoResp
    /\ ingDetects' = <<>>
    /\ ingIndexed' = <<>>
    /\ IF Collected(urls, fetched) = <<>>
       THEN /\ ingPc' = "returned"
            /\ ingRet' = [processed |-> 0, skipped |-> Len(urls), chunks |-> 0]
       ELSE /\ ingPc' = "loop"
            /\ ingRet' = NoRet
    /\ UNCHANGED <<dbArticles, dbMarkets, dbSentiments, dbAlerts, tx, index>>
    /\ UNCHANGED <<cacheVars, exVars, notIng>>

\* ingestion.py:133-135: the except clause: log, roll back, next article.
ArticleFails(step, t) ==
    /\ tx' = Rollback(t)
    /\ ingOutcomes' = Append(ingOutcomes, "failed")
    /\ ingFault' = step
    /\ ingIdx' = ingIdx + 1
    /\ ingPc' = "loop"

\* ingestion.py:53-83: the duplicate query, the new Article and its flush,
\* the chunks added to the vector store; then extract() is awaited. The
\* ValueError of _chunk_text (vector_store.py:107-111) leaves add and is
\* caught by the except clause like any other exception.
ArticleBegin(fault) ==
    /\ ingPc = "loop"
    /\ ingIdx <= Len(ingBatch)
    /\ ingSnap' = Snap
    /\ ingDetects' = <<>>
    /\ LET doc == ingBatch[ingIdx]
           art == [url |-> doc.url, hash |-> ContentHash(doc.content)]
       IN  IF DupExists(doc, dbArticles \o tx.articles)
           THEN /\ fault = "none"
                /\ ingOutcomes' = Append(ingOutcomes, "skipped")
                /\ ingIdx' = ingIdx + 1
                /\ UNCHANGED <<ingPc, ingFault, tx, index, totalChunks, ingIndexed>>
           ELSE IF fault = "flush" \/ ViolatesUnique(art, dbArticles \o tx.articles)
           THEN /\ ArticleFails("flush", [tx EXCEPT !.articles = Append(@, art)])
                /\ UNCHANGED <<index, totalChunks, ingIndexed>>
           ELSE IF ingSettings.chunk_overlap >= ingSettings.chunk_size
           THEN /\ fault = "none"
                /\ ArticleFails("config", [Flush(tx) EXCEPT !.articles = Append(@, art)])
                /\ UNCHANGED <<index, totalChunks, ingIndexed>>
           ELSE IF fault = "index"
           THEN /\ ArticleFails("index", [Flush(tx) EXCEPT !.articles = Append(@, art)])
                /\ UNCHANGED <<index, totalChunks, ingIndexed>>
           ELSE /\ tx' = [Flush(tx) EXCEPT !.articles = Append(@, art)]
                /\ index' = index \cup {doc}
                /\ totalChunks' = AddChunkCount(totalChunks, ChunksOf(doc.content))
                /\ ingIndexed' = Append(ingIndexed, doc)
                /\ ingPc' = "extracting"
                /\ UNCHANGED <<ingOutcomes, ingFault, ingIdx>>
    /\ UNCHANGED <<ingUrls, ingFetched, ingBatch, processed, dbArticles, dbMarkets, dbSentiments, dbAlerts,
                   ingResp, ingRet>>
    /\ UNCHANGED <<cacheVars, exVars, notIng>>

\* ingestion.py:86: extract() is called with the article's content.
IngExtractCall ==
    /\ ingPc = "extracting"
    /\ ExtractCall(CacheKey(ingBatch[ingIdx].content))

\* The responses the model gives for an article, by its content: one that
\* parses and one that fails.
ResponsesFor(c) ==
    IF c % 2 = 1
    THEN {ContentJson(JObject(<<Item(JStr("NYC"), JNum(50), JNum(-10), JTopics(<<1>>))>>)),
          ContentJson(JObject(<<Item(JStr("NYC"), JHugeInt, JNum(5), Absent)>>))}
    ELSE {ContentJson(JObject(<<Item(JStr("Atlantis"), JNum(3), JNum(8), Absent),
                                Item(JPadded("New York"), JOther, Absent, Absent),
                                Item(JStr("DC"), JNum(3), JNum(8), Absent),
                                Item(JStr("Chicago"), JNaN, JNum(20), Absent)>>)),
          CallRaises(FALSE)}

\* sentiment.py:53-78: an attempt of the extract() the article awaits.
IngExtractAttempt ==
    /\ ingPc = "extracting"
    /\ \E resp \in ResponsesFor(ingBatch[ingIdx].content) : ExtractAttempt(resp)

\* ingestion.py:86-135: extract() has returned; the markets, Sentiment rows
\* and alerts of the article, then the commit. A step that raises ends in
\* the except clause.
ArticleFinish(fault) ==
    /\ ingPc = "extracting"
    /\ exPc = "returned"
    /\ ExReset
    /\ ingResp' = exResp
    /\ LET doc == ingBatch[ingIdx]
           art == [url |-> doc.url, hash |-> ContentHash(doc.content)]
           done == Flush(PersistFrom(exResult, 1, tx, {}, art, clock))
       IN  IF fault # "none"
           THEN /\ ArticleFails(fault, IF fault = "market" THEN tx ELSE done)
                /\ ingDetects' = IF fault = "commit" THEN done.detects ELSE <<>>
                /\ UNCHANGED <<dbArticles, dbMarkets, dbSentiments, dbAlerts, processed>>
           ELSE /\ ingDetects' = done.detects
                /\ dbArticles' = dbArticles \o done.articles
                /\ dbMarkets' = dbMarkets \cup done.markets
                /\ dbSentiments' = dbSentiments \o done.flushed
                /\ dbAlerts' = dbAlerts \cup done.alerts
                /\ tx' = EmptyTx
                /\ processed' = processed + 1
                /\ ingOutcomes' = Append(ingOutcomes, "processed")
                /\ ingIdx' = ingIdx + 1
                /\ ingPc' = "loop"
                /\ UNCHANGED ingFault
    /\ UNCHANGED <<ingUrls, ingFetched, ingBatch, totalChunks, index, ingSnap, ingIndexed, ingRet>>
    /\ UNCHANGED <<cacheVars, notIng>>

\* ingestion.py:86, 133-135: the awaited extract() raises.
ExtractRaises ==
    /\ ingPc = "extracting"
    /\ exPc = "idle"
    /\ ArticleFails("extract", tx)
    /\ UNCHANGED <<ingUrls, ingFetched, ingBatch, processed, totalChunks, dbArticles, dbMarkets,
                   dbSentiments, dbAlerts, index, ingSnap, ingResp, ingDetects, ingIndexed,
                   ingRet>>
    /\ UNCHANGED <<cacheVars, exVars, notIng>>

\* Mutant of IngestReturn: skipped is counted against the collected batch.
IngestReturnSkippedOfBatch ==
    /\ ingPc = "loop"
    /\ ingIdx > Len(ingBatch)
    /\ ingPc' = "returned"
    /\ ingRet' = [processed |-> processed, skipped |-> Len(ingBatch) - processed,
                  chunks |-> totalChunks]
    /\ UNCHANGED <<ingUrls, ingFetched, ingBatch, ingIdx, processed, totalChunks, dbArticles,
                   dbMarkets, dbSentiments, dbAlerts, tx, index, ingOutcomes, ingSnap, ingFault,
                   ingResp, ingDetects, ingIndexed>>
    /\ UNCHANGED <<cacheVars, exVars, notIng>>

\* ingestion.py:137: the counts returned after the loop.
IngestReturn ==
    /\ ingPc = "loop"
    /\ ingIdx > Len(ingBatch)
    /\ ingPc' = "returned"
    /\ ingRet' = [processed |-> processed, skipped |-> Len(ingUrls) - processed,
                  chunks |-> totalChunks]
    /\ UNCHANGED <<ingUrls, ingFetched, ingBatch, ingIdx, processed, totalChunks, dbArticles,
                   dbMarkets, dbSentiments, dbAlerts, tx, index, ingOutcomes, ingSnap, ingFault,
                   ingResp, ingDetects, ingIndexed>>
    /\ UNCHANGED <<cacheVars, exVars, notIng>>

\* The caller has the counts; the service is ready for the next call.
IngestDone ==
    /\ ingPc = "returned"
    /\ ingPc' = "idle"
    /\ ingUrls' = <<>>
    /\ ingFetched' = <<>>
    /\ ingBatch' = <<>>
    /\ ingIdx' = 0
    /\ processed' = 0
    /\ totalChunks' = 0
    /\ ingOutcomes' = <<>>
    /\ ingSnap' = NoSnap
    /\ ingFault' = "none"
    /\ ingResp' = NoResp
    /\ ingDetects' = <<>>
    /\ ingIndexed' = <<>>
    /\ ingRet' = NoRet
    /\ UNCHANGED <<dbArticles, dbMarkets, dbSentiments, dbAlerts, tx, index>>
    /\ UNCHANGED <<cacheVars, exVars, notIng>>

UrlLists == UNION {[1..n -> IngUrls] : n \in 1..MaxBatch}

IngNext ==
    \/ \E urls \in UrlLists : \E fetched \in [1..Len(urls) -> Contents \cup {0}] :
          ProcessUrls(urls, fetched)
    \/ \E fault \in {"none", "flush", "index"} : ArticleBegin(fault)
    \/ IngExtractCall
    \/ IngExtractAttempt
    \/ ExtractRaises
    \/ \E fault \in {"none", "market", "anomaly", "commit"} : ArticleFinish(fault)
    \/ IngestReturn
    \/ IngestDone

\* ------------------------------------------------------------------------
\* Anomaly detector on its own (src/src/analysis/trends.py:121-154)
\* ------------------------------------------------------------------------
\* Most rows inside the 30-day window and older than 3 days, inside the 3-day
\* window, of another market.
MaxBaseline == 6
MaxRecent == 2
MaxOther == 1

AN_MARKET == "New York"
BaselineScores == {-2, 0, 2}
RecentScores == {-10, 0, 1, 3, 5, 10}

\* k rows of market name, all with the same score and age (days before now).
Rep(name, score, age, k) == [i \in 1..k |-> [market |-> name, score |-> score, day |-> 0 - age]]

RECURSIVE Concat(_)
Concat(ss) == IF ss = <<>> THEN <<>> ELSE Head(ss) \o Concat(Tail(ss))

\* Tables of sentiments: an optional row older than 30 days, rows of two or
\* three scores between 3 and 30 days old, rows of at most two scores in
\* the last 3 days, rows of another market. In the database a Sentiment
\* row has a market row (sentiments.market_id), so the market is missing
\* only when the table holds no row of it.
RowTables ==
    {Rep(AN_MARKET, 10, old[1], old[2])
       \o Rep(AN_MARKET, -2, bage, b[1]) \o Rep(AN_MARKET, 0, bage, b[2])
       \o Rep(AN_MARKET, 2, bage, b[3])
       \o Rep(AN_MARKET, r1, rage, rc[1]) \o Rep(AN_MARKET, r2, rage, rc[2])
       \o Rep("Chicago", 10, 1, oth) :
          old \in {<<31, 0>>, <<31, 1>>, <<40, 1>>},
          bage \in {4, 30}, rage \in {0, 3},
          b \in {c \in (0..MaxBaseline) \X (0..MaxBaseline) \X (0..MaxBaseline) :
                    c[1] + c[2] + c[3] <= MaxBaseline},
          r1 \in {0, 5}, r2 \in RecentScores \ {0, 5},
          rc \in {c \in (0..MaxRecent) \X (0..MaxRecent) : c[1] + c[2] <= MaxRecent},
          oth \in 0..MaxOther}

AnParked ==
    /\ anRows = <<>>
    /\ anMarkets = {}
    /\ anPc = "idle"
    /\ anResult = FALSE

AnInit ==
    /\ anRows \in RowTables
    /\ \/ anMarkets = {anRows[i].market : i \in 1..Len(anRows)}
       \/ anMarkets = {anRows[i].market : i \in 1..Len(anRows)} \cup {AN_MARKET}
    /\ anPc = "call"
    /\ anResult = FALSE

\* trends.py:121-154: one call of detect_anomaly(db, "New York").
AnDetect ==
    /\ anPc = "call"
    /\ anResult' = DetectAnomaly(anRows, anMarkets, AN_MARKET, 0)
    /\ anPc' = "done"
    /\ UNCHANGED <<anRows, anMarkets, notAn>>

AnNext == AnDetect

\* ------------------------------------------------------------------------
\* Periodic trigger and pipeline (src/src/scheduler.py, src/src/api/main.py)
\* ------------------------------------------------------------------------
\* Pipeline runs that can be in progress together, urls the feeds can name.
NumRuns == 2
NumPipeUrls == 2

Runs == 1..NumRuns
PipeUrls == 1..NumPipeUrls

\* sources.py:132-139: what fetch_all returns, a list without a repeated url.
FeedLists ==
    {q \in UNION {[1..n -> PipeUrls] : n \in 0..NumPipeUrls} :
        \A i, j \in 1..Len(q) : i # j => q[i] # q[j]}

SeqSet(q) == {q[i] : i \in 1..Len(q)}

\* Mutant of NewUrls: the list is not diffed against the known urls.
NewUrlsNoDiff(items, existing) == items

\* scheduler.py:84
NewUrls(items, existing) == SelectSeq(items, LAMBDA u : u \notin existing)

PipeParked ==
    /\ schRunning = FALSE
    /\ schJob = "none"
    /\ schClock = 0
    /\ schFired = FALSE
    /\ pipeDb = {}
    /\ pipePc = [r \in Runs |-> "idle"]
    /\ pipeItems = [r \in Runs |-> <<>>]
    /\ pipeExisting = [r \in Runs |-> {}]
    /\ pipeNew = [r \in Runs |-> <<>>]
    /\ pipeFetched = [r \in Runs |-> {}]
    /\ pipeCalls = [r \in Runs |-> 0]

\* main.py:92-95: the application before lifespan starts the scheduler; the
\* table may hold articles of earlier runs.
PipeInit ==
    /\ schRunning = FALSE
    /\ schJob = "none"
    /\ schClock = 0
    /\ schFired = FALSE
    /\ pipeDb \in SUBSET PipeUrls
    /\ pipePc = [r \in Runs |-> "idle"]
    /\ pipeItems = [r \in Runs |-> <<>>]
    /\ pipeExisting = [r \in Runs |-> {}]
    /\ pipeNew = [r \in Runs |-> <<>>]
    /\ pipeFetched = [r \in Runs |-> {}]
    /\ pipeCalls = [r \in Runs |-> 0]

pipeRunVars == <<pipePc, pipeItems, pipeExisting, pipeNew, pipeFetched, pipeCalls>>

\* scheduler.py:26-48: start(). The job is added with next_run_time=None,
\* which APScheduler documents as "add the job as paused": it has no next
\* run time, in a running scheduler too, until something resumes it.
SchedulerStart ==
    /\ schJob' = "paused"
    /\ schRunning' = TRUE
    /\ schClock' = IF schRunning THEN schClock ELSE 0
    /\ schFired' = IF schRunning THEN schFired ELSE FALSE
    /\ UNCHANGED <<pipeDb, pipeRunVars, notPipe>>

\* scheduler.py:50-53: stop(): shutdown(wait=False) of a running scheduler;
\* the job stays in the (memory) job store, the runs in progress go on.
SchedulerStop ==
    /\ schRunning = TRUE
    /\ schRunning' = FALSE
    /\ UNCHANGED <<schJob, schClock, schFired, pipeDb, pipeRunVars, notPipe>>

\* Wakeups of the scheduler per interval of the job's trigger.
SchTicks == 2

\* scheduler.py:22, 47: the running AsyncIOScheduler wakes up on the event
\* loop's timer and runs the jobs whose next run time has come; a paused job
\* has none, so a wakeup passes it over. start() never leaves the job in
\* another state than paused.
SchedulerWakeup ==
    /\ schRunning = TRUE
    /\ schClock' = (schClock + 1) % SchTicks
    /\ IF schJob = "scheduled" /\ schClock' = 0 /\ \E r \in Runs : pipePc[r] = "idle"
       THEN /\ \E r \in Runs :
                  /\ pipePc[r] = "idle"
                  /\ pipePc' = [pipePc EXCEPT ![r] = "fetch"]
            /\ schFired' = TRUE
       ELSE UNCHANGED <<pipePc, schFired>>
    /\ UNCHANGED <<schRunning, schJob, pipeDb, pipeItems, pipeExisting, pipeNew, pipeFetched,
                   pipeCalls, notPipe>>

\* scheduler.py:58-60 trigger_now, main.py:255-264 trigger_auto_ingest: a
\* run of the pipeline is started as a task, whatever else is running.
TriggerNow(r) ==
    /\ pipePc[r] = "idle"
    /\ pipePc' = [pipePc EXCEPT ![r] = "fetch"]
    /\ UNCHANGED <<schRunning, schJob, schClock, schFired, pipeDb, pipeItems, pipeExisting, pipeNew, pipeFetched,
                   pipeCalls, notPipe>>

\* scheduler.py:71-76: fetch_all; without items the run returns.
PipeFetchAll(r, items) ==
    /\ pipePc[r] = "fetch"
    /\ pipeItems' = [pipeItems EXCEPT ![r] = items]
    /\ pipePc' = [pipePc EXCEPT ![r] = IF items = <<>> THEN "close" ELSE "query"]
    /\ UNCHANGED <<schRunning, schJob, schClock, schFired, pipeDb, pipeExisting, pipeNew, pipeFetched, pipeCalls,
                   notPipe>>

\* scheduler.py:78-83: the urls of table articles, read in a worker thread.
PipeQuery(r) ==
    /\ pipePc[r] = "query"
    /\ pipeExisting' = [pipeExisting EXCEPT ![r] = pipeDb]
    /\ pipePc' = [pipePc EXCEPT ![r] = "diff"]
    /\ UNCHANGED <<schRunning, schJob, schClock, schFired, pipeDb, pipeItems, pipeNew, pipeFetched, pipeCalls,
                   notPipe>>

\* scheduler.py:84-90: the coroutine resumes with the query's result; the
\* diff, and process_urls is called when something is left.
PipeDiff(r) ==
    /\ pipePc[r] = "diff"
    /\ LET new == NewUrls(pipeItems[r], pipeExisting[r])
       IN  /\ pipeNew' = [pipeNew EXCEPT ![r] = new]
           /\ IF new # <<>>
              THEN /\ pipePc' = [pipePc EXCEPT ![r] = "process"]
                   /\ pipeCalls' = [pipeCalls EXCEPT ![r] = @ + 1]
              ELSE /\ pipePc' = [pipePc EXCEPT ![r] = "close"]
                   /\ UNCHANGED pipeCalls
    /\ UNCHANGED <<schRunning, schJob, schClock, schFired, pipeDb, pipeItems, pipeExisting, pipeFetched, notPipe>>

\* scheduler.py:90-94 with ingestion.py:40-137: process_urls fetches the
\* urls it was given and commits an Article for some of those that are not
\* in the table (a fetch or an article may fail, a text may repeat); an
\* exception ends in the except clause, with nothing more committed.
PipeProcessUrls(r, ok) ==
    /\ pipePc[r] = "process"
    /\ ok \subseteq SeqSet(pipeNew[r]) \ pipeDb
    /\ pipeFetched' = [pipeFetched EXCEPT ![r] = @ \cup SeqSet(pipeNew[r])]
    /\ pipeDb' = pipeDb \cup ok
    /\ pipePc' = [pipePc EXCEPT ![r] = "close"]
    /\ UNCHANGED <<schRunning, schJob, schClock, schFired, pipeItems, pipeExisting, pipeNew, pipeCalls, notPipe>>

\* scheduler.py:76, 95-96: return, or finally db.close(); the run is over
\* and its locals are gone.
PipeClose(r) ==
    /\ pipePc[r] = "close"
    /\ pipePc' = [pipePc EXCEPT ![r] = "idle"]
    /\ pipeItems' = [pipeItems EXCEPT ![r] = <<>>]
    /\ pipeExisting' = [pipeExisting EXCEPT ![r] = {}]
    /\ pipeNew' = [pipeNew EXCEPT ![r] = <<>>]
    /\ pipeFetched' = [pipeFetched EXCEPT ![r] = {}]
    /\ pipeCalls' = [pipeCalls EXCEPT ![r] = 0]
    /\ UNCHANGED <<schRunning, schJob, schClock, schFired, pipeDb, notPipe>>

PipeNext ==
    \/ SchedulerStart
    \/ SchedulerStop
    \/ SchedulerWakeup
    \/ \E r \in Runs : TriggerNow(r)
    \/ \E r \in Runs : \E items \in FeedLists : PipeFetchAll(r, items)
    \/ \E r \in Runs : PipeQuery(r)
    \/ \E r \in Runs : PipeDiff(r)
    \/ \E r \in Runs : \E ok \in SUBSET PipeUrls : PipeProcessUrls(r, ok)
    \/ \E r \in Runs : PipeClose(r)

\* ------------------------------------------------------------------------
\* Two process_urls invocations on one event loop
\* (src/src/services/ingestion.py:40-137, src/src/models.py)
\* ------------------------------------------------------------------------
\* Urls of the batch the two invocations are given.
NumCiUrls == 2

Invocations == {1, 2}
CiUrls == 1..NumCiUrls

\* The batches: collect() of a list of distinct urls, every fetch succeeding.
CiBatches ==
    UNION {{Collected(urls, fetched) :
               urls \in {q \in [1..n -> CiUrls] : \A i, j \in 1..n : i # j => q[i] # q[j]},
               fetched \in [1..n -> Contents]} : n \in 1..NumCiUrls}

ArticleOf(doc) == [url |-> doc.url, hash |-> ContentHash(doc.content)]

\* Mutant of FlushOutcome: the INSERT does not wait for the write lock.
FlushOutcomeNoLock(i, art, db, lock) ==
    IF ViolatesUnique(art, db) THEN "IntegrityError" ELSE "ok"

\* ingestion.py:74-75 with models.py:22-27, 90, 105-110: db.flush() sends the
\* INSERT. The session's connection needs SQLite's write lock, which a
\* session holds from its first INSERT to its commit or rollback; while the
\* other invocation holds it the call waits inside sqlite3 (busy_timeout),
\* the event loop with it, so the holder cannot commit and the call ends
\* with OperationalError "database is locked". With the lock, the unique
\* constraints are checked against the committed rows.
FlushOutcome(i, art, db, lock) ==
    IF lock \notin {0, i} THEN "OperationalError"
    ELSE IF ViolatesUnique(art, db) THEN "IntegrityError"
    ELSE "ok"

\* ingestion.py:133: `except Exception` catches both.
CiCatches(exc) == exc \in {"OperationalError", "IntegrityError"}

\* ingestion.py:53-86: the loop from article idx on, up to the next await
\* (extract, with the Article flushed) or to the return; nothing else runs on
\* the event loop meanwhile. The duplicate query sees the committed rows.
RECURSIVE CiLoop(_, _, _, _, _)
CiLoop(i, idx, db, lock, out) ==
    IF idx > Len(ciBatch)
    THEN [pc |-> "returned", idx |-> idx, lock |-> lock, out |-> out]
    ELSE IF DupExists(ciBatch[idx], db)
    THEN CiLoop(i, idx + 1, db, lock, Append(out, "skipped"))
    ELSE LET res == FlushOutcome(i, ArticleOf(ciBatch[idx]), db, lock)
         IN  IF res = "ok"
             THEN [pc |-> "extract", idx |-> idx, lock |-> i, out |-> out]
             ELSE IF CiCatches(res)
             THEN CiLoop(i, idx + 1, db, lock, Append(out, "failed"))
             ELSE [pc |-> "raised", idx |-> idx, lock |-> lock, out |-> out]

CiParked ==
    /\ ciBatch = <<>>
    /\ ciDb0 = <<>>
    /\ ciDb = <<>>
    /\ ciLock = 0
    /\ ciPc = [i \in Invocations |-> "returned"]
    /\ ciIdx = [i \in Invocations |-> 0]
    /\ ciOut = [i \in Invocations |-> <<>>]

\* Both invocations have been called with the same urls and are awaiting
\* collect(); the table is empty, or holds an article of the first url, or
\* an article of another url with the text of the first.
CiInit ==
    /\ ciBatch \in CiBatches
    /\ ciDb0 \in {<<>>, <<OldArticle>>, <<[url |-> 1, hash |-> 1]>>, <<[url |-> 0, hash |-> 1]>>}
    /\ ciDb = ciDb0
    /\ ciLock = 0
    /\ ciPc = [i \in Invocations |-> "collect"]
    /\ ciIdx = [i \in Invocations |-> 0]
    /\ ciOut = [i \in Invocations |-> <<>>]

CiResume(i, idx, db, lock, out) ==
    LET r == CiLoop(i, idx, db, lock, out)
    IN  /\ ciPc' = [ciPc EXCEPT ![i] = r.pc]
        /\ ciIdx' = [ciIdx EXCEPT ![i] = r.idx]
        /\ ciLock' = r.lock
        /\ ciOut' = [ciOut EXCEPT ![i] = r.out]

\* ingestion.py:46-53: collect() returns to invocation i.
CiCollectReturns(i) ==
    /\ ciPc[i] = "collect"
    /\ CiResume(i, 1, ciDb, ciLock, <<>>)
    /\ UNCHANGED <<ciBatch, ciDb0, ciDb, notCi>>

\* ingestion.py:86-131: extract() returns to invocation i; the rows of the
\* article, the commit (the write lock is released), and the loop goes on.
CiExtractReturns(i) ==
    /\ ciPc[i] = "extract"
    /\ ciDb' = Append(ciDb, ArticleOf(ciBatch[ciIdx[i]]))
    /\ CiResume(i, ciIdx[i] + 1, ciDb', 0, Append(ciOut[i], "processed"))
    /\ UNCHANGED <<ciBatch, ciDb0, notCi>>

CiNext == \E i \in Invocations : CiCollectReturns(i) \/ CiExtractReturns(i)

\* ------------------------------------------------------------------------
\* VectorStore() called from several threads
\* (src/src/storage/vector_store.py:10-39)
\* ------------------------------------------------------------------------
\* Threads that call VectorStore().
NumCallers == 2

Callers == 1..NumCallers

VsParked ==
    /\ vsInstance = 0
    /\ vsInitialized = [o \in Callers |-> FALSE]
    /\ vsEmbedder = 0
    /\ vsBuilt = {}
    /\ vsPc = [t \in Callers |-> "done"]
    /\ vsSelf = [t \in Callers |-> 0]

\* vector_store.py:11-12: the class attributes; every caller is about to
\* call VectorStore().
VsInit ==
    /\ vsInstance = 0
    /\ vsInitialized = [o \in Callers |-> FALSE]
    /\ vsEmbedder = 0
    /\ vsBuilt = {}
    /\ vsPc = [t \in Callers |-> "new"]
    /\ vsSelf = [t \in Callers |-> 0]

\* vector_store.py:15: `if cls._instance is None`
VsNewCheck(t) ==
    /\ vsPc[t] = "new"
    /\ vsPc' = [vsPc EXCEPT ![t] = IF vsInstance = 0 THEN "create" ELSE "return"]
    /\ UNCHANGED <<vsInstance, vsInitialized, vsEmbedder, vsBuilt, vsSelf, notVs>>

\* vector_store.py:16: `cls._instance = super().__new__(cls)`
VsNewCreate(t) ==
    /\ vsPc[t] = "create"
    /\ vsInstance' = t
    /\ vsPc' = [vsPc EXCEPT ![t] = "flag"]
    /\ UNCHANGED <<vsInitialized, vsEmbedder, vsBuilt, vsSelf, notVs>>

\* vector_store.py:17: `cls._instance._initialized = False`
VsNewFlag(t) ==
    /\ vsPc[t] = "flag"
    /\ vsInitialized' = [vsInitialized EXCEPT ![vsInstance] = FALSE]
    /\ vsPc' = [vsPc EXCEPT ![t] = "return"]
    /\ UNCHANGED <<vsInstance, vsEmbedder, vsBuilt, vsSelf, notVs>>

\* vector_store.py:18: `return cls._instance`; __init__ is called on it.
VsNewReturn(t) ==
    /\ vsPc[t] = "return"
    /\ vsSelf' = [vsSelf EXCEPT ![t] = vsInstance]
    /\ vsPc' = [vsPc EXCEPT ![t] = "init"]
    /\ UNCHANGED <<vsInstance, vsInitialized, vsEmbedder, vsBuilt, notVs>>

\* vector_store.py:21-32: `if self._initialized: return`, else the client
\* and the collection.
VsInitCheck(t) ==
    /\ vsPc[t] = "init"
    /\ vsPc' = [vsPc EXCEPT ![t] = IF vsInitialized[vsSelf[t]] THEN "done" ELSE "embedder"]
    /\ UNCHANGED <<vsInstance, vsInitialized, vsEmbedder, vsBuilt, vsSelf, notVs>>

\* vector_store.py:35: `if VectorStore._embedder is None`
VsEmbedderCheck(t) ==
    /\ vsPc[t] = "embedder"
    /\ vsPc' = [vsPc EXCEPT ![t] = IF vsEmbedder = 0 THEN "build" ELSE "mark"]
    /\ UNCHANGED <<vsInstance, vsInitialized, vsEmbedder, vsBuilt, vsSelf, notVs>>

\* vector_store.py:36, right-hand side: SentenceTransformer(...) loads the
\* model (seconds of I/O, other threads run).
VsBuild(t) ==
    /\ vsPc[t] = "build"
    /\ vsBuilt' = vsBuilt \cup {t}
    /\ vsPc' = [vsPc EXCEPT ![t] = "assign"]
    /\ UNCHANGED <<vsInstance, vsInitialized, vsEmbedder, vsSelf, notVs>>

\* vector_store.py:36: the assignment to VectorStore._embedder.
VsAssign(t) ==
    /\ vsPc[t] = "assign"
    /\ vsEmbedder' = t
    /\ vsPc' = [vsPc EXCEPT ![t] = "mark"]
    /\ UNCHANGED <<vsInstance, vsInitialized, vsBuilt, vsSelf, notVs>>

\* vector_store.py:38-39: `self._initialized = True`, the log line.
VsMark(t) ==
    /\ vsPc[t] = "mark"
    /\ vsInitialized' = [vsInitialized EXCEPT ![vsSelf[t]] = TRUE]
    /\ vsPc' = [vsPc EXCEPT ![t] = "done"]
    /\ UNCHANGED <<vsInstance, vsEmbedder, vsBuilt, vsSelf, notVs>>

VsNext ==
    \E t \in Callers :
        \/ VsNewCheck(t)
        \/ VsNewCreate(t)
        \/ VsNewFlag(t)
        \/ VsNewReturn(t)
        \/ VsInitCheck(t)
        \/ VsEmbedderCheck(t)
        \/ VsBuild(t)
        \/ VsAssign(t)
        \/ VsMark(t)

\* ------------------------------------------------------------------------
\* One _fetch call (src/src/ingestion/collector.py:79-120)
\* ------------------------------------------------------------------------
\* collector.py:81
max_attempts == 3

\* What one `await client.get(url)` and the code after it can lead to:
\* status 200 with a page _parse accepts, 200 with a page _parse returns
\* None for, 200 with _parse raising, 429, another status, and the
\* exceptions of the four except clauses.
FetchOutcomes ==
    {"ok", "no_article", "parse_raises", "429", "status", "timeout",
     "status_error", "network", "other_exception"}

\* Mutant of Classify: any status other than 200 is retried like a 429.
ClassifyRetriesStatus(o) ==
    CASE o = "ok" -> "return_doc"
      [] o \in {"429", "status"} -> "rate_limited"
      [] o \in {"timeout", "network"} -> "transient"
      [] OTHER -> "return_none"

\* collector.py:87-117: the branch an outcome takes.
Classify(o) ==
    CASE o = "ok" -> "return_doc"
      [] o = "429" -> "rate_limited"
      [] o \in {"timeout", "network"} -> "transient"
      [] OTHER -> "return_none"

\* Mutant of RateLimitWait: the same wait after every attempt.
RateLimitWaitFlat(attempt) == 3

\* collector.py:91
RateLimitWait(attempt) == 3 * (attempt + 1)

\* Mutant of TransientWait: the same wait after every attempt.
TransientWaitFlat(attempt) == 2

\* collector.py:102, 112
TransientWait(attempt) == 2 * (attempt + 1)

FtParked ==
    /\ ftPc = "idle"
    /\ ftAttempt = 0
    /\ ftOutcomes = <<>>
    /\ ftSleeps = <<>>
    /\ ftResult = "pending"

FtInit == FtParked

\* collector.py:79-83: the call; the loop starts with attempt 0.
FetchCall ==
    /\ ftPc = "idle"
    /\ ftPc' = "request"
    /\ ftAttempt' = 0
    /\ UNCHANGED <<ftOutcomes, ftSleeps, ftResult, notFt>>

\* collector.py:85-117: one client.get and what follows it up to the next
\* await or the return.
FetchAttempt(o) ==
    /\ ftPc = "request"
    /\ ftOutcomes' = Append(ftOutcomes, o)
    /\ LET n == ftAttempt + 1
       IN  CASE Classify(o) = "return_doc" ->
                  /\ ftResult' = "doc"
                  /\ ftPc' = "returned"
                  /\ UNCHANGED ftSleeps
             [] Classify(o) = "return_none" ->
                  /\ ftResult' = "none"
                  /\ ftPc' = "returned"
                  /\ UNCHANGED ftSleeps
             [] Classify(o) = "rate_limited" ->
                  /\ ftSleeps' = Append(ftSleeps, [n |-> n, secs |-> RateLimitWait(ftAttempt)])
                  /\ ftPc' = "sleep"
                  /\ UNCHANGED ftResult
             [] Classify(o) = "transient" ->
                  IF ftAttempt < max_attempts - 1
                  THEN /\ ftSleeps' = Append(ftSleeps, [n |-> n, secs |-> TransientWait(ftAttempt)])
                       /\ ftPc' = "sleep"
                       /\ UNCHANGED ftResult
                  ELSE /\ ftResult' = "none"
                       /\ ftPc' = "returned"
                       /\ UNCHANGED ftSleeps
    /\ UNCHANGED <<ftAttempt, notFt>>

\* collector.py:94, 103, 113, 119-120: the sleep is over, `continue`: the
\* next attempt, or the end of the loop and None.
FetchWake ==
    /\ ftPc = "sleep"
    /\ IF ftAttempt + 1 < max_attempts
       THEN /\ ftAttempt' = ftAttempt + 1
            /\ ftPc' = "request"
            /\ UNCHANGED ftResult
       ELSE /\ ftResult' = "none"
            /\ ftPc' = "returned"
            /\ UNCHANGED ftAttempt
    /\ UNCHANGED <<ftOutcomes, ftSleeps, notFt>>

FtNext ==
    \/ FetchCall
    \/ \E o \in FetchOutcomes : FetchAttempt(o)
    \/ FetchWake

\* ------------------------------------------------------------------------
\* Source discovery: fetch_all (src/src/ingestion/sources.py:122-141)
\* ------------------------------------------------------------------------
\* Distinct URLs the sources can report, and the longest list of one source.
NumSrcUrls == 2
MaxSrcItems == 2

SrcUrls == 1..NumSrcUrls

\* sources.py:13-18: NewsItem, reduced to url and source label.
NewsItem(u, l) == [url |-> u, source |-> l]

\* sources.py:22-28, 107: labels of two feeds; the label of a NewsAPI article.
RssLabels == {"CNBC", "HousingWire"}
NewsapiLabels == {"NewsAPI"}

ItemSeqs(labels) ==
    UNION {[1..n -> {NewsItem(u, l) : u \in SrcUrls, l \in labels}] : n \in 0..MaxSrcItems}

Pending == <<[url |-> 0, source |-> "pending"]>>

\* Mutant of DedupeFrom: a later item with a known URL replaces the label.
RECURSIVE DedupeLastLabel(_, _, _, _)
DedupeLastLabel(items, i, seen, out) ==
    IF i > Len(items) THEN out
    ELSE IF items[i].url \in seen
    THEN DedupeLastLabel(items, i + 1, seen,
                         [k \in DOMAIN out |->
                             IF out[k].url = items[i].url THEN items[i] ELSE out[k]])
    ELSE DedupeLastLabel(items, i + 1, seen \cup {items[i].url}, Append(out, items[i]))

\* sources.py:132-138: the loop over rss + newsapi with the set `seen`.
RECURSIVE DedupeFrom(_, _, _, _)
DedupeFrom(items, i, seen, out) ==
    IF i > Len(items) THEN out
    ELSE IF items[i].url \in seen
    THEN DedupeFrom(items, i + 1, seen, out)
    ELSE DedupeFrom(items, i + 1, seen \cup {items[i].url}, Append(out, items[i]))

SrcParked ==
    /\ srcPc = "idle"
    /\ srcRss = Pending
    /\ srcNewsapi = Pending
    /\ srcUnique = <<>>

SrcInit == SrcParked

\* sources.py:125-130: fetch_rss goes to the executor, fetch_newsapi is
\* started, both are awaited with gather.
FetchAll ==
    /\ srcPc = "idle"
    /\ srcPc' = "gather"
    /\ UNCHANGED <<srcRss, srcNewsapi, srcUnique, notSrc>>

\* sources.py:40-69: fetch_rss returns its items.
FetchRssReturns(items) ==
    /\ srcPc = "gather"
    /\ srcRss = Pending
    /\ srcRss' = items
    /\ UNCHANGED <<srcPc, srcNewsapi, srcUnique, notSrc>>

\* sources.py:71-120: fetch_newsapi returns its items.
FetchNewsapiReturns(items) ==
    /\ srcPc = "gather"
    /\ srcNewsapi = Pending
    /\ srcNewsapi' = items
    /\ UNCHANGED <<srcPc, srcRss, srcUnique, notSrc>>

\* sources.py:130-141: gather hands back (rss, newsapi); the items are
\* deduplicated by URL and returned.
FetchAllReturn ==
    /\ srcPc = "gather"
    /\ srcRss # Pending
    /\ srcNewsapi # Pending
    /\ srcUnique' = DedupeFrom(srcRss \o srcNewsapi, 1, {}, <<>>)
    /\ srcPc' = "returned"
    /\ UNCHANGED <<srcRss, srcNewsapi, notSrc>>

SrcNext ==
    \/ FetchAll
    \/ \E items \in ItemSeqs(RssLabels) : FetchRssReturns(items)
    \/ \E items \in ItemSeqs(NewsapiLabels) : FetchNewsapiReturns(items)
    \/ FetchAllReturn

\* ------------------------------------------------------------------------
\* collect: the gathered fetches and the deduplication
\* (src/src/ingestion/collector.py:48-66)
\* ------------------------------------------------------------------------
\* Longest `urls` argument of collect here.
NumGatherUrls == 3

GaTasks == 1..NumGatherUrls

GaParked ==
    /\ gaPc = "idle"
    /\ gaN = 0
    /\ gaResults = [i \in GaTasks |-> 0]
    /\ gaOrder = <<>>
    /\ gaArticles = <<>>

GaInit == GaParked

\* collector.py:48-53: one task per URL, all handed to gather.
GaCollect(n) ==
    /\ gaPc = "idle"
    /\ gaN' = n
    /\ gaResults' = [i \in GaTasks |-> IF i <= n THEN -1 ELSE 0]
    /\ gaOrder' = <<>>
    /\ gaPc' = "gather"
    /\ UNCHANGED <<gaArticles, notGa>>

\* collector.py:68-77: a task finishes, with a RawArticle of content c or
\* with nothing (None, an empty content or an exception gather hands back).
GaTaskDone(i, c) ==
    /\ gaPc = "gather"
    /\ i <= gaN
    /\ gaResults[i] = -1
    /\ gaResults' = [gaResults EXCEPT ![i] = c]
    /\ gaOrder' = Append(gaOrder, i)
    /\ UNCHANGED <<gaPc, gaN, gaArticles, notGa>>

\* collector.py:53-66: gather returns the results in the order of its
\* arguments; the loop over them keeps the first document of a fingerprint.
GaReturn ==
    /\ gaPc = "gather"
    /\ \A i \in 1..gaN : gaResults[i] # -1
    /\ gaArticles' = Collected([i \in 1..gaN |-> i], [i \in 1..gaN |-> gaResults[i]])
    /\ gaPc' = "returned"
    /\ UNCHANGED <<gaN, gaResults, gaOrder, notGa>>

GaNext ==
    \/ \E n \in 0..NumGatherUrls : GaCollect(n)
    \/ \E i \in GaTasks, c \in Contents \cup {0} : GaTaskDone(i, c)
    \/ GaReturn

\* ------------------------------------------------------------------------
\* get_cached on one cache file, damaged files included
\* (src/src/services/cache.py:33-68)
\* ------------------------------------------------------------------------
\* Latest clock value and longest TTL here, in days.
MaxGcNow == 3
MaxGcTtl == 2

\* What the file of a key can hold: a written entry (an object with "ts" and
\* "result"), an object without "result", an object whose "ts" is a string,
\* text that is not JSON (empty or cut off), JSON that is not an object,
\* bytes that are not UTF-8.
EntryKinds == {"entry", "no_result", "bad_ts", "invalid_json", "not_object", "not_utf8"}

GcAbsent == [kind |-> "absent", ts |-> 0]

GcEntries ==
    {GcAbsent} \cup {[kind |-> k, ts |-> t] : k \in EntryKinds, t \in 0..1}

\* The stored result of an entry of kind "entry".
GcResult == <<DEFAULT_RECORD>>

GcNone == [k |-> "none"]
GcRaise(exc) == [k |-> "raise", exc |-> exc]

\* cache.py:33-68: what get_cached gives for the file, how often it calls
\* unlink, and the file it leaves. readFails: read_text raises OSError;
\* unlinkFails: unlink raises OSError.
GetCachedOutcome(e, now, ttl, readFails, unlinkFails) ==
    IF e.kind = "absent" THEN [out |-> GcNone, unlinks |-> 0, left |-> e]
    ELSE IF readFails THEN [out |-> GcNone, unlinks |-> 0, left |-> e]
    ELSE IF e.kind = "not_utf8"
    THEN [out |-> GcRaise("UnicodeDecodeError"), unlinks |-> 0, left |-> e]
    ELSE IF e.kind = "invalid_json"
    THEN [out |-> GcNone, unlinks |-> 1, left |-> IF unlinkFails THEN e ELSE GcAbsent]
    ELSE IF e.kind = "not_object"
    THEN [out |-> GcRaise("AttributeError"), unlinks |-> 0, left |-> e]
    ELSE IF e.kind = "bad_ts"
    THEN [out |-> GcRaise("TypeError"), unlinks |-> 0, left |-> e]
    ELSE IF now - e.ts < ttl
    THEN [out |-> IF e.kind = "entry" THEN [k |-> "result", value |-> GcResult] ELSE GcNone,
          unlinks |-> 0, left |-> e]
    ELSE [out |-> GcNone, unlinks |-> 1, left |-> IF unlinkFails THEN e ELSE GcAbsent]

GcParked ==
    /\ gcEntry = GcAbsent
    /\ gcNow = 0
    /\ gcTtl = 7
    /\ gcPc = "idle"
    /\ gcOut = GcNone
    /\ gcUnlinks = 0
    /\ gcCall = [entry |-> GcAbsent, readFails |-> FALSE, unlinkFails |-> FALSE]

GcInit ==
    /\ gcEntry \in GcEntries
    /\ gcNow \in 0..MaxGcNow
    /\ gcTtl \in 1..MaxGcTtl
    /\ gcPc = "idle"
    /\ gcOut = GcNone
    /\ gcUnlinks = 0
    /\ gcCall = [entry |-> GcAbsent, readFails |-> FALSE, unlinkFails |-> FALSE]

\* cache.py:33-68: one call of get_cached.
GcGetCached(readFails, unlinkFails) ==
    /\ gcPc = "idle"
    /\ LET r == GetCachedOutcome(gcEntry, gcNow, gcTtl, readFails, unlinkFails)
       IN  /\ gcOut' = r.out
           /\ gcUnlinks' = r.unlinks
           /\ gcEntry' = r.left
           /\ gcPc' = IF r.out.k = "raise" THEN "raised" ELSE "returned"
    /\ gcCall' = [entry |-> gcEntry, readFails |-> readFails, unlinkFails |-> unlinkFails]
    /\ UNCHANGED <<gcNow, gcTtl, notGc>>

GcNext == \E readFails, unlinkFails \in BOOLEAN : GcGetCached(readFails, unlinkFails)

\* ------------------------------------------------------------------------
\* collect with the fetch policy of one task spelled out
\* (src/src/ingestion/collector.py:41-120)
\* ------------------------------------------------------------------------
\* What one `await client.get(url)` of _fetch can lead to: the outcomes the
\* except clauses handle, and an exception that is no Exception
\* (asyncio.CancelledError), which passes `except Exception` and leaves
\* _fetch.
SfOutcomes == FetchOutcomes \cup {"raises"}

SfParked ==
    /\ sfTracked = 0
    /\ sfAttempt = 0
    /\ sfResult = "pending"
    /\ sfBlocked = FALSE

SfInit == SfParked

\* The tasks still suspended in semaphore.acquire().
SfWaiters == {i \in 1..collN : taskPc[i] = "waiting"}

\* collect(urls): a fresh semaphore and one task per URL, all handed to
\* gather. One of the tasks, the first or the last, is followed through
\* _fetch; the others are in "fetching" from acquire to release.
SfCollect ==
    /\ collPc = "idle"
    /\ \E n \in 0..NumUrls :
         /\ collN' = n
         /\ taskPc' = [i \in Tasks |-> IF i <= n THEN "waiting" ELSE "done"]
         /\ \E t \in {IF n = 0 THEN 0 ELSE 1, n} : sfTracked' = t
    /\ semValue' = MAX_CONCURRENT_REQUESTS
    /\ collPc' = "gather"
    /\ sfAttempt' = 0
    /\ sfResult' = "pending"
    /\ sfBlocked' = FALSE
    /\ UNCHANGED notCollSf

\* collector.py:76: `async with semaphore` entered; gather starts the tasks
\* in the order of the URLs and asyncio.Semaphore wakes its waiters first in,
\* first out. collector.py:77, 81-83: _fetch starts with attempt 0.
SfAcquire(i) ==
    /\ collPc = "gather"
    /\ i <= collN
    /\ taskPc[i] = "waiting"
    /\ \A j \in 1..(i - 1) : taskPc[j] # "waiting"
    /\ SemaphoreFree
    /\ semValue' = semValue - 1
    /\ taskPc' = [taskPc EXCEPT ![i] = IF i = sfTracked THEN "request" ELSE "fetching"]
    /\ UNCHANGED <<collPc, collN, sfVars, notCollSf>>

\* collector.py:85-117 in the followed task: one client.get and what follows
\* it up to the next await, the return or the exception that leaves _fetch.
SfFetchAttempt(o) ==
    /\ collPc = "gather"
    /\ sfTracked > 0
    /\ taskPc[sfTracked] = "request"
    /\ LET toSleep ==
               /\ taskPc' = [taskPc EXCEPT ![sfTracked] = "sleep"]
               /\ sfBlocked' = (sfBlocked \/ SfWaiters # {})
               /\ UNCHANGED sfResult
           leave(r) ==
               /\ taskPc' = [taskPc EXCEPT ![sfTracked] = "exit"]
               /\ sfResult' = r
               /\ UNCHANGED sfBlocked
       IN  IF o = "raises"
           THEN leave("raised")
           ELSE CASE Classify(o) = "return_doc" -> leave("doc")
                  [] Classify(o) = "return_none" -> leave("none")
                  [] Classify(o) = "rate_limited" -> toSleep
                  [] Classify(o) = "transient" ->
                       IF sfAttempt < max_attempts - 1 THEN toSleep ELSE leave("none")
    /\ UNCHANGED <<collPc, collN, semValue, sfTracked, sfAttempt, notCollSf>>

\* collector.py:94, 103, 113, 119-120 in the followed task: the sleep is
\* over, `continue`: the next attempt, or the end of the loop and None.
SfFetchWake ==
    /\ collPc = "gather"
    /\ sfTracked > 0
    /\ taskPc[sfTracked] = "sleep"
    /\ IF sfAttempt + 1 < max_attempts
       THEN /\ sfAttempt' = sfAttempt + 1
            /\ taskPc' = [taskPc EXCEPT ![sfTracked] = "request"]
            /\ UNCHANGED sfResult
       ELSE /\ sfResult' = "none"
            /\ taskPc' = [taskPc EXCEPT ![sfTracked] = "exit"]
            /\ UNCHANGED sfAttempt
    /\ UNCHANGED <<collPc, collN, semValue, sfTracked, sfBlocked, notCollSf>>

\* Mutant of SfRelease: the task ends and keeps its slot.
SfReleaseKeepsSlot(i) ==
    /\ collPc = "gather"
    /\ i <= collN
    /\ taskPc[i] \in {"fetching", "exit"}
    /\ taskPc' = [taskPc EXCEPT ![i] = "done"]
    /\ UNCHANGED <<collPc, collN, semValue, sfVars, notCollSf>>

\* collector.py:76-77: _fetch returned or raised and `async with` releases
\* the slot on the way out.
SfRelease(i) ==
    /\ collPc = "gather"
    /\ i <= collN
    /\ taskPc[i] \in {"fetching", "exit"}
    /\ semValue' = semValue + 1
    /\ taskPc' = [taskPc EXCEPT ![i] = "done"]
    /\ UNCHANGED <<collPc, collN, sfVars, notCollSf>>

\* collector.py:53: gather completes when every task has finished, with a
\* result or with an exception (return_exceptions=True).
SfCollectReturn ==
    /\ collPc = "gather"
    /\ \A i \in 1..collN : taskPc[i] = "done"
    /\ collPc' = "returned"
    /\ UNCHANGED <<collN, taskPc, semValue, sfVars, notCollSf>>

\* What the event loop does on its own once collect was called.
SfProgress ==
    \/ \E i \in Tasks : SfAcquire(i)
    \/ \E o \in SfOutcomes : SfFetchAttempt(o)
    \/ SfFetchWake
    \/ \E i \in Tasks : SfRelease(i)
    \/ SfCollectReturn

SfNext ==
    \/ SfCollect
    \/ SfProgress

LateParked == AnParked /\ PipeParked /\ CiParked /\ VsParked /\ FtParked /\ SrcParked /\ GaParked /\ GcParked /\ SfParked

\* ------------------------------------------------------------------------
\* Specifications: one per component, the other components parked
\* ------------------------------------------------------------------------
InitCollect == CollInit /\ ChunkParked /\ CacheParked /\ CcParked /\ ExIdle /\ IngParked /\ LateParked
SpecCollect == InitCollect /\ [][CollNext]_vars

InitChunk == ChunkInit /\ CollInit /\ CacheParked /\ CcParked /\ ExIdle /\ IngParked /\ LateParked
SpecChunk == InitChunk /\ [][ChunkNext]_vars

InitCache == CacheInit /\ CollInit /\ ChunkParked /\ CcParked /\ ExIdle /\ IngParked /\ LateParked
SpecCache == InitCache /\ [][CacheNext]_vars

InitCacheConc == CcInit /\ CollInit /\ ChunkParked /\ CacheParked /\ ExIdle /\ IngParked /\ LateParked
SpecCacheConc == InitCacheConc /\ [][CcNext]_vars

InitExtract == ExInit /\ CollInit /\ ChunkParked /\ CcParked /\ IngParked /\ LateParked
SpecExtract == InitExtract /\ [][ExNext]_vars

InitIngest == IngInit /\ CollInit /\ ChunkParked /\ CcParked /\ LateParked
SpecIngest == InitIngest /\ [][IngNext]_vars

EarlyParked ==
    CollInit /\ ChunkParked /\ CacheParked /\ CcParked /\ ExIdle /\ IngParked

InitAnomaly == AnInit /\ EarlyParked /\ PipeParked /\ CiParked /\ VsParked /\ FtParked /\ SrcParked /\ GaParked /\ GcParked /\ SfParked
SpecAnomaly == InitAnomaly /\ [][AnNext]_vars

InitPipeline == PipeInit /\ EarlyParked /\ AnParked /\ CiParked /\ VsParked /\ FtParked /\ SrcParked /\ GaParked /\ GcParked /\ SfParked
SpecPipeline == InitPipeline /\ [][PipeNext]_vars

\* The event loop the scheduler runs on keeps serving its timer, so a
\* running scheduler keeps waking up.
SpecPipelineFair == InitPipeline /\ [][PipeNext]_vars /\ WF_vars(SchedulerWakeup)

InitConcurrentIngest == CiInit /\ EarlyParked /\ AnParked /\ PipeParked /\ VsParked /\ FtParked /\ SrcParked /\ GaParked /\ GcParked /\ SfParked
SpecConcurrentIngest == InitConcurrentIngest /\ [][CiNext]_vars

InitVectorStore == VsInit /\ EarlyParked /\ AnParked /\ PipeParked /\ CiParked /\ FtParked /\ SrcParked /\ GaParked /\ GcParked /\ SfParked
SpecVectorStore == InitVectorStore /\ [][VsNext]_vars

InitFetch == FtInit /\ EarlyParked /\ AnParked /\ PipeParked /\ CiParked /\ VsParked /\ SrcParked /\ GaParked /\ GcParked /\ SfParked
SpecFetch == InitFetch /\ [][FtNext]_vars

InitSources == SrcInit /\ EarlyParked /\ AnParked /\ PipeParked /\ CiParked /\ VsParked /\ FtParked /\ GaParked /\ GcParked /\ SfParked
SpecSources == InitSources /\ [][SrcNext]_vars

InitGather == GaInit /\ EarlyParked /\ AnParked /\ PipeParked /\ CiParked /\ VsParked /\ FtParked /\ SrcParked /\ GcParked /\ SfParked
SpecGather == InitGather /\ [][GaNext]_vars

InitGetCached == GcInit /\ EarlyParked /\ AnParked /\ PipeParked /\ CiParked /\ VsParked /\ FtParked /\ SrcParked /\ GaParked /\ SfParked
SpecGetCached == InitGetCached /\ [][GcNext]_vars

InitCollectFetch == SfInit /\ EarlyParked /\ AnParked /\ PipeParked /\ CiParked /\ VsParked /\ FtParked /\ SrcParked /\ GaParked /\ GcParked
SpecCollectFetch == InitCollectFetch /\ [][SfNext]_vars

\* The event loop keeps running: a task that can take a slot takes it, a
\* request ends (the client has timeout=25), a sleep ends, a finished task
\* leaves `async with`, and gather returns once all tasks are done. Whether
\* collect is called at all is left open.
SpecCollectFetchFair == InitCollectFetch /\ [][SfNext]_vars /\ WF_vars(SfProgress)

\* ------------------------------------------------------------------------
\* Claims
\* ------------------------------------------------------------------------
\* C1: during any collect call, whatever the number of URLs, the number of
\* fetches simultaneously in flight never exceeds the limiter size (10).
C1_InFlightBounded == Cardinality(InFlight) <= MAX_CONCURRENT_REQUESTS

\* C1 witness: more URLs than the limit, the limiter full and a task held back.
C1_Witness ==
    /\ collN > MAX_CONCURRENT_REQUESTS
    /\ Cardinality(InFlight) = MAX_CONCURRENT_REQUESTS
    /\ \E i \in 1..collN : taskPc[i] = "waiting"

\* C10: for every text and every (chunk_size, chunk_overlap) with
\* overlap < size, _chunk_text terminates: the window start grows by at least
\* one character on every iteration (so there are at most len(text)
\* iterations), and every emitted chunk has length in [51, chunk_size].
C10_ChunkProgressAndLength ==
    settings.chunk_overlap < settings.chunk_size =>
        /\ chunkPc # "raised"
        /\ chunkIters > 0 => start >= prevStart + 1
        /\ chunkIters <= Len(text)
        /\ \A k \in 1..Len(chunks) :
              /\ chunks[k].to - chunks[k].from >= 51
              /\ chunks[k].to - chunks[k].from <= settings.chunk_size

\* C10 witness: an iteration has just advanced the start by the guard's one
\* character because end - overlap did not pass the old start, after a chunk
\* cut at a sentence boundary (a window shorter than chunk_size) was emitted.
C10_Witness ==
    /\ chunkPc = "loop"
    /\ settings.chunk_overlap < settings.chunk_size
    /\ chunkIters > 0
    /\ start = prevStart + 1
    /\ WindowEnd(text, prevStart, settings.chunk_size) - settings.chunk_overlap <= prevStart
    /\ \E k \in 1..Len(chunks) :
          /\ chunks[k].wto - chunks[k].wfrom < settings.chunk_size
          /\ chunks[k].wto < Len(text)

\* C7: set_cached(content, result) followed by get_cached(content), nothing
\* but time in between, returns result unchanged while the entry's age is
\* below the TTL; once the age has reached the TTL it returns a miss and the
\* entry's file is gone.
C7_CacheRoundTrip ==
    cacheHist.phase = "setget" =>
        IF cacheHist.readAt - cacheHist.ts < cacheCfg.cache_ttl_days
        THEN cacheHist.ret.hit /\ cacheHist.ret.value = cacheHist.result
        ELSE ~cacheHist.ret.hit /\ ~cacheDir[cacheHist.key].exists

\* C7 witnesses: a read within the TTL that returned a two-record result, and
\* (C7_WitnessExpired) a read at an age equal to the TTL.
C7_Witness ==
    /\ cacheHist.phase = "setget"
    /\ cacheHist.readAt > cacheHist.ts
    /\ cacheHist.readAt - cacheHist.ts < cacheCfg.cache_ttl_days
    /\ cacheHist.ret.hit
    /\ Len(cacheHist.ret.value) = 2

C7_WitnessExpired ==
    /\ cacheHist.phase = "setget"
    /\ cacheHist.readAt - cacheHist.ts = cacheCfg.cache_ttl_days
    /\ ~cacheHist.ret.hit

\* C8 (as claimed): once set_cached has been called for more than
\* max_cache_files distinct keys (and no read has removed a file), exactly
\* max_cache_files entries remain, and they are the most recently timestamped.
C8_ExactlyMaxRemain ==
    (onlySets /\ Cardinality(insertedKeys) > cacheCfg.max_cache_files) =>
        Cardinality(FilesOf(cacheDir)) = cacheCfg.max_cache_files

\* C9 (as claimed): with several writers (threads of one process or separate
\* processes) and readers on one key, a get_cached returns a miss or a
\* complete result some set_cached wrote, and once all writers have finished
\* the entry's file exists and holds one complete entry.
C9_NeverCorruptedNorLost ==
    /\ \A r \in Readers :
          (ccR[r].pc = "done" /\ ccR[r].ret.hit) =>
              ccR[r].ret.value \in ({WriterResult(w) : w \in Writers} \cup {<<DEFAULT_RECORD>>})
    /\ (\A w \in Writers : ccW[w].pc = "done") =>
          /\ ccDir # 0
          /\ JsonLoads(ccInodes[ccDir]).ok

\* C4: extract never raises and, whenever it has returned, the result is a
\* list of at least one record with the four fields, whatever the model call
\* gave on each attempt (an exception, a null completion, text that is not
\* JSON, JSON that is not an object, an object without "extractions", items
\* that are not objects).
C4_ExtractNeverRaises ==
    /\ exPc # "raised"
    /\ exPc = "returned" =>
          /\ Len(exResult) >= 1
          /\ \A i \in 1..Len(exResult) :
                DOMAIN exResult[i] = {"market", "sentiment", "confidence", "topics"}

\* The call failed, then the completion was null, then it was JSON that is
\* not an object (or held an item that is not one): the fallback came back.
C4_Witness ==
    /\ exPc = "returned"
    /\ exAttempt = MAX_ATTEMPTS
    /\ exExcs = <<"APIError", "TypeError", "AttributeError">>
    /\ exResult = <<DEFAULT_RECORD>>

\* The rows of table sentiments that belong to an article.
RowsOf(art) == {dbSentiments[i] : i \in {j \in 1..Len(dbSentiments) : dbSentiments[j].article = art}}

\* The article the loop of process_urls has just finished with.
LastDoc == ingBatch[Len(ingOutcomes)]
LastArt == [url |-> LastDoc.url, hash |-> ContentHash(LastDoc.content)]
LastOutcome == ingOutcomes[Len(ingOutcomes)]
ArticleDone == ingPc \in {"loop", "returned"} /\ ingOutcomes # <<>>
TablesAsBegun ==
    /\ dbArticles = ingSnap.articles
    /\ dbMarkets = ingSnap.markets
    /\ dbSentiments = ingSnap.sentiments
    /\ dbAlerts = ingSnap.alerts

\* C2: no two persisted Article rows share a url and no two share a content
\* hash; a fetched document whose url or hash belonged to a persisted Article
\* when its turn came is skipped (not failed), and the tables and the index
\* are as they were before it.
C2_UniqueAndDuplicateSkipped ==
    /\ \A i, j \in 1..Len(dbArticles) :
          i # j => /\ dbArticles[i].url # dbArticles[j].url
                   /\ dbArticles[i].hash # dbArticles[j].hash
    /\ ArticleDone =>
          ((\E i \in 1..Len(ingSnap.articles) :
                \/ ingSnap.articles[i].url = LastDoc.url
                \/ ingSnap.articles[i].hash = ContentHash(LastDoc.content))
           => /\ LastOutcome = "skipped"
              /\ TablesAsBegun
              /\ index = ingSnap.index
              /\ tx = EmptyTx)

\* A document under a new url whose content hash is already persisted was
\* skipped.
C2_Witness ==
    /\ ArticleDone
    /\ LastOutcome = "skipped"
    /\ \A i \in 1..Len(dbArticles) : dbArticles[i].url # LastDoc.url
    /\ \E i \in 1..Len(dbArticles) : dbArticles[i].hash = ContentHash(LastDoc.content)

Count(q, x) == Cardinality({i \in 1..Len(q) : q[i] = x})

\* C3: when a step of an article raises, the session holds nothing of it
\* and the tables are as they were when the article was begun; every article
\* committed earlier in the batch is still in the tables; the loop reaches
\* every article of the batch; and process_urls returns its counts.
C3_FailureRolledBackBatchGoesOn ==
    /\ ingPc \in {"idle", "loop", "extracting", "returned"}
    /\ (ArticleDone /\ LastOutcome = "failed") => (tx = EmptyTx /\ TablesAsBegun)
    /\ \A k \in 1..Len(ingOutcomes) :
          ingOutcomes[k] = "processed" =>
             \E i \in 1..Len(dbArticles) :
                dbArticles[i] = [url |-> ingBatch[k].url, hash |-> ContentHash(ingBatch[k].content)]
    /\ ingPc = "returned" =>
          /\ Len(ingOutcomes) = Len(ingBatch)
          /\ ingRet.processed = Count(ingOutcomes, "processed")
          /\ ingRet.skipped = Len(ingUrls) - ingRet.processed

\* The first article failed after its rows were flushed, the second one was
\* committed, and the counts came back.
C3_Witness ==
    /\ ingPc = "returned"
    /\ ingOutcomes = <<"failed", "processed">>
    /\ ingFault \in {"anomaly", "commit"}
    /\ ingRet.processed = 1
    /\ Len(dbArticles) > Len(ingSnap.articles)

\* An article was committed, then the next one failed: the first one stays.
C3_WitnessEarlierStays ==
    /\ ingPc = "returned"
    /\ ingOutcomes = <<"processed", "failed">>
    /\ \E i \in 1..Len(dbArticles) : dbArticles[i].url = ingBatch[1].url

\* The score and the confidence the claim C5 gives for a field of the model's
\* response, in tenths.
ClampInt(lo, hi, v) == IF v < lo THEN lo ELSE IF v > hi THEN hi ELSE v
ExpectedValue(x, lo, hi, default) ==
    CASE x.t \in {"num", "strnum"} -> ClampInt(lo, hi, x.v)
      [] x.t \in {"inf", "hugeint"} -> hi
      [] x.t \in {"absent", "other", "nan"} -> default

\* The market an item of a response names, as the extractor reads it.
NamedMarket(it) == NormalizeMarket(StrStrip(it.market))

\* The article just committed was extracted from a completion that is a JSON
\* object with a list of extraction objects.
ParsedItems ==
    IF /\ ArticleDone
       /\ LastOutcome = "processed"
       /\ ingResp.k = "json"
    THEN ingResp.v.items
    ELSE <<>>

\* C5: every persisted Sentiment row has its score in [-1, 1] and its
\* confidence in [0, 1], and the row stored for an item of the model's
\* response holds the item's sentiment and confidence clamped to the nearest
\* bound, or 0.0 and 0.5 when the field is missing or not a number.
C5_ClampedOrDefault ==
    /\ \A i \in 1..Len(dbSentiments) :
          /\ dbSentiments[i].score \in -10..10
          /\ dbSentiments[i].confidence \in 0..10
    /\ \A i \in 1..Len(ParsedItems) :
          NamedMarket(ParsedItems[i]) \in VALID_MARKETS =>
             \E r \in RowsOf(LastArt) :
                /\ r.market = NamedMarket(ParsedItems[i])
                /\ r.score = ExpectedValue(ParsedItems[i].sentiment, -10, 10, 0)
                /\ r.confidence = ExpectedValue(ParsedItems[i].confidence, 0, 10, 5)

\* The part of C5 about the ranges alone.
C5_RowsInRange ==
    \A i \in 1..Len(dbSentiments) :
       /\ dbSentiments[i].score \in -10..10
       /\ dbSentiments[i].confidence \in 0..10

\* The items of the completion the rows of the article just committed were
\* parsed from.
AcceptedItems == IF ingResp.k = "json" /\ ~Attempt(ingResp).raised THEN ParsedItems ELSE <<>>

\* Every name normalization is applied to: the whitelist, the aliases and
\* names that are neither.
SomeNames == VALID_MARKETS \cup AliasKeys \cup {"Washington DC", "Atlantis", "None", ""}

\* C6: a whitelisted name normalizes to itself and normalizing twice equals
\* normalizing once; an item naming a known alias is persisted under the
\* alias's canonical name ("NYC" under "New York"); an item naming neither a
\* whitelisted name nor an alias leaves no row; every persisted market name
\* is in the whitelist.
C6_AliasPersistedUnderCanonical ==
    /\ \A n \in VALID_MARKETS : NormalizeMarket(n) = n
    /\ \A n \in SomeNames : NormalizeMarket(NormalizeMarket(n)) = NormalizeMarket(n)
    /\ NormalizeMarket("NYC") = "New York"
    /\ dbMarkets \subseteq VALID_MARKETS
    /\ \A i \in 1..Len(dbSentiments) : dbSentiments[i].market \in dbMarkets
    /\ \A i \in 1..Len(AcceptedItems) :
          LET name == StrStrip(AcceptedItems[i].market)
          IN  /\ name \in AliasKeys =>
                    \E r \in RowsOf(LastArt) : <<name, r.market>> \in ALIASES
              /\ name \in VALID_MARKETS => \E r \in RowsOf(LastArt) : r.market = name
              /\ name \notin VALID_MARKETS \cup AliasKeys =>
                    \A r \in RowsOf(LastArt) : r.market # name

\* The parts of C6 that do not depend on every alias being whitelisted.
C6_PersistedNamesWhitelisted ==
    /\ \A n \in VALID_MARKETS : NormalizeMarket(n) = n
    /\ \A n \in SomeNames : NormalizeMarket(NormalizeMarket(n)) = NormalizeMarket(n)
    /\ dbMarkets \subseteq VALID_MARKETS
    /\ \A i \in 1..Len(dbSentiments) : dbSentiments[i].market \in dbMarkets
    /\ \A i \in 1..Len(AcceptedItems) :
          LET name == StrStrip(AcceptedItems[i].market)
          IN  /\ (name \in AliasKeys /\ NormalizeMarket(name) \in VALID_MARKETS) =>
                    \E r \in RowsOf(LastArt) : r.market = NormalizeMarket(name)
              /\ NormalizeMarket(name) \notin VALID_MARKETS =>
                    \A r \in RowsOf(LastArt) : r.market \notin {name, NormalizeMarket(name)}

\* C11: for every text and every (chunk_size, chunk_overlap) with
\* overlap < size, every character position of the (truncated) text lies
\* inside the span of at least one chunk that _chunk_text returns.
C11_ChunksCoverText ==
    (chunkPc = "done" /\ settings.chunk_overlap < settings.chunk_size) =>
        \A p \in 0..(Len(text) - 1) :
            \E k \in 1..Len(chunks) : chunks[k].from <= p /\ p < chunks[k].to

\* C11 as amended: every character position lies in the window of some
\* iteration; a position outside every returned chunk is either white space
\* trimmed from the edge of a returned chunk's window, or lies in a window
\* that was skipped because its trimmed text has 50 characters or fewer.
C11_CoveredUpToSkippedWindows ==
    (chunkPc = "done" /\ settings.chunk_overlap < settings.chunk_size) =>
        \A p \in 0..(Len(text) - 1) :
            \/ \E k \in 1..Len(chunks) : chunks[k].from <= p /\ p < chunks[k].to
            \/ \E k \in 1..Len(chunks) :
                  /\ chunks[k].wfrom <= p /\ p < chunks[k].wto
                  /\ IsSpace(text[p + 1])
            \/ \E k \in 1..Len(dropped) :
                  /\ dropped[k].wfrom <= p /\ p < dropped[k].wto
                  /\ dropped[k].n <= 50

\* C11 witness: a call that returned at least one chunk and skipped a last
\* window holding characters that are not white space and that no returned
\* chunk contains.
C11_Witness ==
    /\ chunkPc = "done"
    /\ settings.chunk_overlap < settings.chunk_size
    /\ Len(chunks) > 0
    /\ \E p \in 0..(Len(text) - 1) :
          /\ ~IsSpace(text[p + 1])
          /\ \A k \in 1..Len(chunks) : ~(chunks[k].wfrom <= p /\ p < chunks[k].wto)
          /\ \E k \in 1..Len(dropped) : dropped[k].wfrom <= p /\ p < dropped[k].wto

\* The samples of the market among the rows of SpecAnomaly: the positions of
\* the rows at most `days` old and more than `newer` days old.
SamplesIn(days, newer) ==
    {i \in 1..Len(anRows) :
        /\ anRows[i].market = AN_MARKET
        /\ anRows[i].day >= 0 - days
        /\ anRows[i].day < 0 - newer}

RECURSIVE SumScores(_, _)
SumScores(idx, pow) ==
    IF idx = {} THEN 0
    ELSE LET i == CHOOSE j \in idx : TRUE
         IN  (IF pow = 2 THEN anRows[i].score * anRows[i].score ELSE anRows[i].score)
                + SumScores(idx \ {i}, pow)

Month == SamplesIn(30, -1)
Recent == SamplesIn(3, -1)
Older == SamplesIn(30, 3)

\* C12: detect_anomaly returns false whenever the market has fewer than 5
\* samples in the trailing 30 days, whatever the recent values, and whenever
\* it has no sample in the trailing 3 days, and when the market row does
\* not exist.
C12_FalseWithoutSamples ==
    anPc = "done" =>
        ((\/ Cardinality(Month) < 5
          \/ Cardinality(Recent) = 0
          \/ AN_MARKET \notin anMarkets) => anResult = FALSE)

\* C12 witness: four samples in the 30 days, one of them a recent +1.0 far
\* from the three others, and the call returned false.
C12_Witness ==
    /\ anPc = "done"
    /\ AN_MARKET \in anMarkets
    /\ Cardinality(Month) = 4
    /\ Cardinality(Recent) = 1
    /\ \A i \in Recent : anRows[i].score = 10
    /\ \A i \in Older : anRows[i].score = 0
    /\ anResult = FALSE

\* C12, second case reached: five samples in the 30 days, none in the last 3.
C12_WitnessNoRecent ==
    /\ anPc = "done"
    /\ Cardinality(Month) >= 5
    /\ Cardinality(Recent) = 0
    /\ anResult = FALSE

\* z squared as a fraction, the baseline being every sample of the trailing
\* 30 days: with N samples of sum S and sum of squares Q, M recent samples
\* of sum R, z^2 = (R/M - S/N)^2 / max(Q/N - (S/N)^2, 0.01), scores in tenths.
ZNum == Sq(SumScores(Recent, 1) * Cardinality(Month) - SumScores(Month, 1) * Cardinality(Recent))
ZDen ==
    Sq(Cardinality(Recent))
        * Max(Cardinality(Month) * SumScores(Month, 2) - Sq(SumScores(Month, 1)),
              Sq(Cardinality(Month)))

C13_Rule ==
    (anPc = "done" /\ Cardinality(Month) >= 5 /\ Cardinality(Recent) >= 1) =>
        (anResult <=> ZNum > 4 * ZDen)

\* C13: with at least 5 baseline samples and a recent sample, detect_anomaly
\* returns true exactly when |recent mean - baseline mean| / max(population
\* stddev of the baseline, 0.1) > 2.0; so baseline scores uniformly 0.0 with
\* recent mean 0.5 give z = 5.0 and an anomaly, and baseline mean 0.0 with
\* stddev 0.2 and recent mean 0.3 give z = 1.5 and no anomaly.
C13_RuleAndExamplesAsStated ==
    /\ C13_Rule
    /\ (/\ anPc = "done"
        /\ Cardinality(Older) >= 5
        /\ \A i \in Older : anRows[i].score = 0
        /\ Cardinality(Recent) >= 1
        /\ SumScores(Recent, 1) = 5 * Cardinality(Recent))
         => (anResult = TRUE /\ ZNum = 25 * ZDen)
    /\ (/\ anPc = "done"
        /\ Cardinality(Older) >= 5
        /\ SumScores(Older, 1) = 0
        /\ SumScores(Older, 2) = 4 * Cardinality(Older)
        /\ Cardinality(Recent) >= 1
        /\ SumScores(Recent, 1) = 3 * Cardinality(Recent))
         => (anResult = FALSE /\ 4 * ZNum = 9 * ZDen)

\* C13 as amended: the rule stands, the baseline being every sample of the
\* trailing 30 days, the recent ones included; five samples of 0.0 older
\* than 3 days and one recent 0.5 give z = sqrt(5) and an anomaly; three
\* samples of -0.2 and three of 0.2 older than 3 days and one recent 0.3
\* give z below 1.5 and no anomaly.
C13_RuleWithRecentInBaseline ==
    /\ C13_Rule
    /\ (/\ anPc = "done"
        /\ Cardinality(Older) = 5
        /\ \A i \in Older : anRows[i].score = 0
        /\ Cardinality(Recent) = 1
        /\ SumScores(Recent, 1) = 5)
         => (anResult = TRUE /\ ZNum = 5 * ZDen)
    /\ (/\ anPc = "done"
        /\ Cardinality(Older) = 6
        /\ SumScores(Older, 1) = 0
        /\ SumScores(Older, 2) = 4 * Cardinality(Older)
        /\ Cardinality(Recent) = 1
        /\ SumScores(Recent, 1) = 3)
         => (anResult = FALSE /\ 4 * ZNum < 9 * ZDen)

\* C13 witness: five older samples of 0.0 and one recent 0.5; flagged.
C13_Witness ==
    /\ anPc = "done"
    /\ Cardinality(Older) = 5
    /\ \A i \in Older : anRows[i].score = 0
    /\ Cardinality(Recent) = 1
    /\ SumScores(Recent, 1) = 5
    /\ anResult = TRUE

\* C13, the second example reached: not flagged.
C13_WitnessNotFlagged ==
    /\ anPc = "done"
    /\ Cardinality(Older) = 6
    /\ SumScores(Older, 1) = 0
    /\ SumScores(Older, 2) = 24
    /\ Cardinality(Recent) = 1
    /\ SumScores(Recent, 1) = 3
    /\ anResult = FALSE

\* C14: given two distinct urls whose fetched content is the same text, and
\* no Article in the database, process_urls persists exactly one Article
\* and reports the other url as skipped: processed = 1, skipped = 1 (no step
\* of the article raising).
C14_SameTextOnePersisted ==
    (/\ ingPc = "returned"
     /\ Len(ingUrls) = 2
     /\ ingUrls[1] # ingUrls[2]
     /\ ingFetched[1] # 0
     /\ ingFetched[1] = ingFetched[2]
     /\ ingSnap.articles = <<>>
     /\ Count(ingOutcomes, "failed") = 0)
        => /\ ingRet.processed = 1
           /\ ingRet.skipped = 1
           /\ Len(dbArticles) = 1
           /\ dbArticles[1].url = ingUrls[1]

\* C14 witness: such a call has returned 1 / 1 with one Article stored.
C14_Witness ==
    /\ ingPc = "returned"
    /\ Len(ingUrls) = 2
    /\ ingUrls[1] # ingUrls[2]
    /\ ingFetched[1] # 0
    /\ ingFetched[1] = ingFetched[2]
    /\ ingSnap.articles = <<>>
    /\ ingRet.processed = 1
    /\ ingRet.skipped = 1
    /\ Len(dbArticles) = 1

C16_WitnessNothingNew ==
    \E r \in Runs :
        /\ pipePc[r] = "close"
        /\ pipeItems[r] # <<>>
        /\ SeqSet(pipeItems[r]) \subseteq pipeExisting[r]
        /\ pipeCalls[r] = 0

\* What one invocation alone leaves in table articles: the rows at the
\* start, then a row for every article of the batch that is no duplicate.
RECURSIVE OneInvocation(_, _)
OneInvocation(db, idx) ==
    IF idx > Len(ciBatch) THEN db
    ELSE IF \E k \in 1..Len(db) :
               db[k].url = ciBatch[idx].url \/ db[k].hash = ContentHash(ciBatch[idx].content)
    THEN OneInvocation(db, idx + 1)
    ELSE OneInvocation(Append(db, ArticleOf(ciBatch[idx])), idx + 1)

\* C17: two process_urls invocations running concurrently on the same batch
\* leave table articles as one invocation would: under every interleaving
\* no url and no content hash has two rows, neither invocation raises, and
\* when both have returned every url and hash of the batch has exactly the
\* row one invocation would have left.
C17_AsOneInvocation ==
    /\ \A i \in Invocations : ciPc[i] # "raised"
    /\ \A j, k \in 1..Len(ciDb) :
          j # k => (ciDb[j].url # ciDb[k].url /\ ciDb[j].hash # ciDb[k].hash)
    /\ (\A i \in Invocations : ciPc[i] = "returned") =>
          /\ SeqSet(ciDb) = SeqSet(OneInvocation(ciDb0, 1))
          /\ Len(ciDb) = Len(OneInvocation(ciDb0, 1))
          /\ ciLock = 0

\* C17 witness: both invocations have returned; one committed the two
\* articles of the batch, the other skipped the first as a duplicate and lost
\* the INSERT of the second to the first one's lock.
C17_Witness ==
    /\ \A i \in Invocations : ciPc[i] = "returned"
    /\ \E i, j \in Invocations :
          /\ ciOut[i] = <<"processed", "processed">>
          /\ ciOut[j] = <<"skipped", "failed">>

\* C18: however the VectorStore() calls of several callers interleave,
\* SentenceTransformer is instantiated once, and when the calls are over
\* every caller uses that one instance.
C18_EmbedderBuiltOnce ==
    /\ Cardinality(vsBuilt) <= 1
    /\ (\A t \in Callers : vsPc[t] = "done") => (vsBuilt = {vsEmbedder})

\* What does hold of the racing calls: when they are over there is one
\* VectorStore object, marked initialized, and an embedder is set.
C18_OneObjectInTheEnd ==
    (\A t \in Callers : vsPc[t] = "done") =>
        /\ vsEmbedder # 0
        /\ vsInstance # 0

\* C19: Settings() is accepted only with chunk_overlap < chunk_size and is
\* rejected otherwise; and when add meets chunk_overlap >= chunk_size it
\* raises with no chunk produced, none embedded and none written.
C19_ConfigErrorBeforeAnyWork ==
    /\ chunkPc = "configured" => settings.chunk_overlap < settings.chunk_size
    /\ chunkPc = "rejected" => settings.chunk_overlap >= settings.chunk_size
    /\ chunkPc = "raised" => settings.chunk_overlap >= settings.chunk_size
    /\ (/\ settings.chunk_overlap >= settings.chunk_size
        /\ chunkPc \notin {"construct", "rejected", "call"}) =>
            /\ chunkPc = "raised"
            /\ chunks = <<>>
            /\ chunkIters = 0
            /\ addEmbedded = 0
            /\ addWritten = 0

\* add has raised on a text that yields chunks under valid settings.
C19_Witness ==
    /\ chunkPc = "raised"
    /\ Len(text) >= 75
    /\ settings.chunk_overlap >= settings.chunk_size

\* Settings() has raised.
C19_WitnessRejected ==
    /\ chunkPc = "rejected"
    /\ settings.chunk_overlap = settings.chunk_size

\* C20: once vector_store.add has raised the configuration error inside
\* process_urls, process_urls has raised it to its caller: the loop does not
\* go on and no counts are returned.
C20_ConfigErrorFatalToBatch ==
    ingFault = "config" => ingPc = "raised"

\* What the code does instead: the article is counted as failed, nothing of
\* it is stored, and the batch goes on to the returned counts.
C20_ConfigErrorIsAnArticleFailure ==
    ingFault = "config" =>
        /\ ingPc \in {"loop", "returned"}
        /\ ingOutcomes[Len(ingOutcomes)] \in {"failed", "skipped"}
        /\ tx = EmptyTx
        /\ index = {}
        /\ processed = 0

\* The sleep recorded for attempt number n of the running _fetch call.
SleptAfter(n, secs) == \E k \in DOMAIN ftSleeps : ftSleeps[k] = [n |-> n, secs |-> secs]

\* Attempt number n was not the last request of a finished call, or the call
\* is still on its way to the next request.
RetriedAfter(n) ==
    /\ ftPc = "returned" => Len(ftOutcomes) > n
    /\ ftPc = "request" => ftAttempt + 1 > n

\* C21: a 429 on attempt n (1, 2, 3) is followed by a sleep of 3 * n seconds;
\* for n < 3 the call does not end before request n + 1 is made, and after
\* the third attempt the call ends with no document.
C21_RateLimitBackoff ==
    \A n \in DOMAIN ftOutcomes :
        ftOutcomes[n] = "429" =>
            /\ n <= 3
            /\ SleptAfter(n, 3 * n)
            /\ \A k \in DOMAIN ftSleeps : ftSleeps[k].n = n => ftSleeps[k].secs = 3 * n
            /\ n < 3 => RetriedAfter(n)
            /\ (n = 3 /\ ftPc = "returned") => (ftResult = "none" /\ Len(ftOutcomes) = 3)

\* Three 429 responses in a row: slept 3, 6 and 9 seconds, then gave up.
C21_Witness ==
    /\ ftPc = "returned"
    /\ ftOutcomes = <<"429", "429", "429">>
    /\ ftSleeps = <<[n |-> 1, secs |-> 3], [n |-> 2, secs |-> 6], [n |-> 3, secs |-> 9]>>
    /\ ftResult = "none"

\* C22: a timeout or network error on attempt n is followed by a sleep of
\* 2^n seconds and a retry while attempts remain; with the third attempt
\* the call ends with no further sleep and no document.
C22_TransientBackoff ==
    \A n \in DOMAIN ftOutcomes :
        ftOutcomes[n] \in {"timeout", "network"} =>
            /\ n <= 3
            /\ n < 3 => (SleptAfter(n, 2 ^ n) /\ RetriedAfter(n))
            /\ \A k \in DOMAIN ftSleeps : ftSleeps[k].n = n => ftSleeps[k].secs = 2 ^ n
            /\ n = 3 => (ftPc = "returned" /\ ftResult = "none" /\ ~SleptAfter(n, 2 ^ n))

\* A timeout, a network error and a timeout: slept 2 and 4 seconds.
C22_Witness ==
    /\ ftPc = "returned"
    /\ ftOutcomes = <<"timeout", "network", "timeout">>
    /\ ftSleeps = <<[n |-> 1, secs |-> 2], [n |-> 2, secs |-> 4]>>
    /\ ftResult = "none"

\* The outcomes after which _fetch may ask again.
RetryableOutcomes == {"429", "timeout", "network"}

\* C23: a status other than 200 and 429, and an error that is not retried,
\* end the call at once with no document and no further request; and a
\* call never makes more than 3 requests, ending with no document when all
\* of them met 429 responses, timeouts or network errors.
C23_AbandonAndAtMostThree ==
    /\ Len(ftOutcomes) <= 3
    /\ \A n \in DOMAIN ftOutcomes :
          ftOutcomes[n] \in {"status", "status_error", "other_exception"} =>
              /\ n = Len(ftOutcomes)
              /\ ftPc = "returned"
              /\ ftResult = "none"
              /\ \A k \in DOMAIN ftSleeps : ftSleeps[k].n < n
    /\ (ftPc = "returned" /\ \A n \in DOMAIN ftOutcomes : ftOutcomes[n] \in RetryableOutcomes) =>
          (ftResult = "none" /\ Len(ftOutcomes) = 3)

\* A 429, then a status such as 404: given up after two requests.
C23_Witness ==
    /\ ftPc = "returned"
    /\ ftOutcomes = <<"429", "status">>
    /\ ftResult = "none"

\* A mixture of the three retried failures used all three requests.
C23_WitnessMixture ==
    /\ ftPc = "returned"
    /\ ftOutcomes = <<"timeout", "429", "network">>
    /\ ftResult = "none"

\* Everything the two sources reported, in the order fetch_all walks it.
Discovered == srcRss \o srcNewsapi

\* The positions in Discovered where a URL occurs for the first time, and
\* the k-th of them.
FirstSeen == {i \in DOMAIN Discovered : \A j \in 1..(i - 1) : Discovered[j].url # Discovered[i].url}
KthFirstSeen(k) == CHOOSE i \in FirstSeen : Cardinality({j \in FirstSeen : j < i}) = k - 1

\* The label of the last item in Discovered that has URL u.
LastLabel(u) ==
    LET at == {i \in DOMAIN Discovered : Discovered[i].url = u}
    IN  Discovered[CHOOSE i \in at : \A j \in at : j <= i].source

\* C30: the list fetch_all returns holds each URL once, each item kept
\* carries the label its URL was last seen with, and the items stand in the
\* order in which their URLs were discovered.
C30_UniqueLastLabelStableOrder ==
    srcPc = "returned" =>
        /\ \A a, b \in DOMAIN srcUnique : srcUnique[a].url = srcUnique[b].url => a = b
        /\ \A a \in DOMAIN srcUnique : srcUnique[a].source = LastLabel(srcUnique[a].url)
        /\ Len(srcUnique) = Cardinality(FirstSeen)
        /\ \A k \in DOMAIN srcUnique : srcUnique[k].url = Discovered[KthFirstSeen(k)].url

\* C30 as the code has it: each URL once, each item kept is the first item
\* seen for its URL (the feeds before the search API), label included, and
\* the items stand in the order in which their URLs were discovered.
C30_UniqueFirstLabelStableOrder ==
    srcPc = "returned" =>
        /\ \A a, b \in DOMAIN srcUnique : srcUnique[a].url = srcUnique[b].url => a = b
        /\ Len(srcUnique) = Cardinality(FirstSeen)
        /\ \A k \in DOMAIN srcUnique : srcUnique[k] = Discovered[KthFirstSeen(k)]

\* A URL reported by a feed and again by the search API, after another URL.
C30_Witness ==
    /\ srcPc = "returned"
    /\ Len(srcUnique) = 2
    /\ \E i, j \in DOMAIN Discovered :
          /\ i < j
          /\ Discovered[i].url = Discovered[j].url
          /\ Discovered[i].source # Discovered[j].source

\* The position of task i in the completion order.
CompletedAt(i) == CHOOSE k \in DOMAIN gaOrder : gaOrder[k] = i

\* The tasks that fetched a document with the fingerprint of document d.
SameFingerprint(d) ==
    {i \in 1..gaN : gaResults[i] > 0 /\ ContentHash(gaResults[i]) = ContentHash(d.content)}

NoTwoWithOneFingerprint ==
    \A a, b \in DOMAIN gaArticles :
        ContentHash(gaArticles[a].content) = ContentHash(gaArticles[b].content) => a = b

\* C24: the list collect returns has no two documents with one
\* fingerprint, and of the fetched documents with one fingerprint the one
\* kept is the one whose fetch completed first.
C24_FirstCompletedKept ==
    gaPc = "returned" =>
        /\ NoTwoWithOneFingerprint
        /\ \A a \in DOMAIN gaArticles :
              \A i \in SameFingerprint(gaArticles[a]) :
                  CompletedAt(gaArticles[a].url) <= CompletedAt(i)

\* C24 as the code has it: no two documents with one fingerprint, every
\* fingerprint fetched is represented, and the one kept is the first in the
\* order of the urls argument, whatever the order of completion.
C24_FirstInUrlOrderKept ==
    gaPc = "returned" =>
        /\ NoTwoWithOneFingerprint
        /\ \A i \in 1..gaN : gaResults[i] > 0 =>
              \E a \in DOMAIN gaArticles : gaArticles[a].url \in SameFingerprint([content |-> gaResults[i]])
        /\ \A a \in DOMAIN gaArticles :
              /\ gaArticles[a].content = gaResults[gaArticles[a].url]
              /\ \A i \in SameFingerprint(gaArticles[a]) : gaArticles[a].url <= i

\* Two documents with one fingerprint, the later URL's fetch completed
\* first, the earlier URL's document was kept.
C24_Witness ==
    /\ gaPc = "returned"
    /\ \E a \in DOMAIN gaArticles :
          \E i \in SameFingerprint(gaArticles[a]) :
              /\ i # gaArticles[a].url
              /\ CompletedAt(i) < CompletedAt(gaArticles[a].url)

\* The calls of the extraction model made so far by the running extract.
ModelCalls == Len(exExcs) + (IF exPc = "returned" /\ ~exFromCache /\ Len(exExcs) < MAX_ATTEMPTS THEN 1 ELSE 0)

\* C25: on a cache miss extract calls the model at most 3 times; after
\* failed attempt n it sleeps 5 * n seconds for a rate limit and 2^n seconds
\* for any other failure; after 3 failed attempts it returns the one default
\* record for "National" and raises nothing.
C25_ThreeCallsBackoffFromOne ==
    ~exFromCache =>
        /\ ModelCalls <= 3
        /\ exPc # "raised"
        /\ \A n \in DOMAIN exSleeps :
              exSleeps[n] = IF exExcs[n] = "rate_limit" THEN 5 * n ELSE 2 ^ n
        /\ Len(exExcs) = 3 => (exPc = "returned" /\ exResult = <<DEFAULT_RECORD>>)

\* C25 as the code has it: the same, with 2^(n - 1) seconds (1, 2, 4) after
\* a failure that is not a rate limit.
C25_ThreeCallsBackoffFromZero ==
    ~exFromCache =>
        /\ ModelCalls <= 3
        /\ exPc # "raised"
        /\ Len(exSleeps) = Len(exExcs)
        /\ \A n \in DOMAIN exSleeps :
              exSleeps[n] = IF exExcs[n] = "rate_limit" THEN 5 * n ELSE 2 ^ (n - 1)
        /\ Len(exExcs) = 3 => (exPc = "returned" /\ exResult = <<DEFAULT_RECORD>>)

\* A rate limit and two other failures: slept 5, 2 and 4 seconds, default
\* record returned.
C25_Witness ==
    /\ exPc = "returned"
    /\ ~exFromCache
    /\ Len(exExcs) = 3
    /\ exExcs[1] = "rate_limit"
    /\ exSleeps = <<5, 2, 4>>
    /\ exResult = <<DEFAULT_RECORD>>

\* C28: get_cached on a file that holds invalid JSON or JSON that is not an
\* object, or that cannot be read, returns None, raises nothing and calls
\* unlink on the file, whether or not the unlink succeeds.
C28_DamagedIsMissAndDeleted ==
    (/\ gcPc # "idle"
     /\ \/ gcCall.entry.kind \in {"invalid_json", "not_object"}
        \/ (gcCall.entry.kind # "absent" /\ gcCall.readFails)) =>
        /\ gcPc = "returned"
        /\ gcOut = GcNone
        /\ gcUnlinks = 1

\* What the code does for text that is not JSON: None, one unlink, and no
\* exception when the unlink fails.
C28_InvalidJsonIsMissAndDeleted ==
    (gcPc # "idle" /\ gcCall.entry.kind = "invalid_json" /\ ~gcCall.readFails) =>
        /\ gcPc = "returned"
        /\ gcOut = GcNone
        /\ gcUnlinks = 1
        /\ gcEntry = IF gcCall.unlinkFails THEN gcCall.entry ELSE GcAbsent

\* The cache directory d holds, at time now, an entry for key k that was
\* written less than the TTL ago.
HoldsUnexpired(d, k, now) ==
    /\ d[k].exists
    /\ JsonLoads(d[k].data).ok
    /\ now - JsonLoads(d[k].data).ts < cacheCfg.cache_ttl_days

\* C26: a call of extract that finds an unexpired entry for its content
\* returns the stored result as it is, with no model call made and the
\* cache directory left as it was.
C26_HitReturnsCachedOnly ==
    [][(exPc = "idle" /\ exPc' # "idle" /\ HoldsUnexpired(cacheDir, exKey', clock)) =>
          /\ exPc' = "returned"
          /\ exFromCache'
          /\ exResult' = JsonLoads(cacheDir[exKey'].data).result
          /\ exResp' = NoResp
          /\ exExcs' = <<>>
          /\ cacheDir' = cacheDir]_vars

\* A stored result of two records was returned from the cache.
C26_Witness ==
    /\ exPc = "returned"
    /\ exFromCache
    /\ Len(exResult) = 2
    /\ exResp = NoResp
    /\ HoldsUnexpired(cacheDir, exKey, clock)

\* The items _validate was given by the attempt that produced the result
\* extract has just returned, when the completion was a JSON object.
ValidatedItems ==
    IF /\ exPc = "returned"
       /\ ~exFromCache
       /\ exResp # NoResp
       /\ exResp.k = "json"
       /\ ~Attempt(exResp).raised
    THEN exResp.v.items
    ELSE <<>>

\* C27: a list _validate returned names each market once, the record of a
\* market being the one built from the first item that names it (after
\* normalization), and each record has at most 3 topics of at most 50
\* characters.
C27_OncePerMarketTopicsBounded ==
    exPc = "returned" =>
        /\ \A a, b \in DOMAIN exResult : exResult[a].market = exResult[b].market => a = b
        /\ \A a \in DOMAIN exResult :
              /\ Len(exResult[a].topics) <= 3
              /\ \A t \in DOMAIN exResult[a].topics : exResult[a].topics[t] <= 50
        /\ \A a \in DOMAIN exResult :
              LET naming == {i \in DOMAIN ValidatedItems :
                                NamedMarket(ValidatedItems[i]) = exResult[a].market}
              IN  naming # {} =>
                      LET first == CHOOSE i \in naming : \A j \in naming : i <= j
                      IN  exResult[a] = BuildRecord(exResult[a].market, ValidatedItems[first]).val

\* Two items that name New York (one as NYC) gave one record, built from
\* the first.
C27_Witness ==
    /\ Len(ValidatedItems) = 2
    /\ NamedMarket(ValidatedItems[1]) = "New York"
    /\ NamedMarket(ValidatedItems[2]) = "New York"
    /\ ValidatedItems[1].market # ValidatedItems[2].market
    /\ Len(exResult) = 1

\* An item with four topics, the first of 60 characters, gave three topics,
\* the first of 50.
C27_WitnessTopics ==
    /\ Len(ValidatedItems) >= 1
    /\ ValidatedItems[1].topics = JTopics(<<60, 2, 2, 2>>)
    /\ Len(exResult) >= 1
    /\ exResult[1].topics = <<50, 2, 2>>

\* The alerts added to the table since the article was begun.
NewAlerts == dbAlerts \ ingSnap.alerts

\* C29: for one article, detect_anomaly is called at most once per market,
\* only for markets the article has a record for, and every Alert created
\* for the article comes from a call that returned true and references that
\* article and that market.
C29_DetectorOncePerMarketAlertOnTrue ==
    /\ \A i, j \in DOMAIN ingDetects : ingDetects[i].market = ingDetects[j].market => i = j
    /\ \A i \in DOMAIN ingDetects :
          /\ ingDetects[i].article = LastArt
          /\ LastOutcome = "processed" =>
                 \E r \in RowsOf(LastArt) : r.market = ingDetects[i].market
    /\ ingPc # "idle" =>
          \A a \in NewAlerts :
              /\ a.article = LastArt
              /\ \E i \in DOMAIN ingDetects :
                    /\ ingDetects[i].result
                    /\ ingDetects[i].market = a.market

\* An article was processed, the detector returned true for its market and
\* an Alert for that market and article is in the table.
C29_Witness ==
    /\ ingPc = "loop"
    /\ Len(ingOutcomes) >= 1
    /\ ingOutcomes[Len(ingOutcomes)] = "processed"
    /\ \E i \in DOMAIN ingDetects :
          /\ ingDetects[i].result
          /\ [market |-> ingDetects[i].market, article |-> LastArt] \in NewAlerts

\* An article with records for two markets was processed: one call per
\* market, one of them returned false and no Alert names that market.
C29_WitnessNoAlert ==
    /\ ingPc = "loop"
    /\ Len(ingOutcomes) >= 1
    /\ ingOutcomes[Len(ingOutcomes)] = "processed"
    /\ Len(ingDetects) = 2
    /\ \E i \in DOMAIN ingDetects :
          /\ ~ingDetects[i].result
          /\ \A a \in NewAlerts : a.market # ingDetects[i].market

\* C31: once start() has been called, and as long as stop() is not, the
\* scheduler eventually invokes the pipeline function by itself.
C31_JobEventuallyFires == [](schRunning => <>(schFired \/ ~schRunning))

\* What the code gives instead: the scheduler never invokes the pipeline
\* function; the job it holds is always the paused one.
C31_JobNeverFires == ~schFired /\ schJob \in {"none", "paused"}

\* C32: every alias of _normalize_market leads to a whitelisted name, so an
\* item of the model's response that names an alias has a record, under a
\* whitelisted name, in the list extract returns.
C32_AliasNeverDropped ==
    \A i \in DOMAIN ValidatedItems :
        LET name == StrStrip(ValidatedItems[i].market)
        IN  name \in AliasKeys =>
                /\ NormalizeMarket(name) \in VALID_MARKETS
                /\ \E k \in DOMAIN exResult : exResult[k].market = NormalizeMarket(name)

\* What holds of the code: an alias whose canonical name is whitelisted is
\* kept under that name; an alias whose canonical name is not ("DC",
\* "D.C.", "Washington" for "Washington DC") leaves no record.
C32_WhitelistedAliasKept ==
    \A i \in DOMAIN ValidatedItems :
        LET name == StrStrip(ValidatedItems[i].market)
        IN  name \in AliasKeys =>
                IF NormalizeMarket(name) \in VALID_MARKETS
                THEN \E k \in DOMAIN exResult : exResult[k].market = NormalizeMarket(name)
                ELSE \A k \in DOMAIN exResult :
                        exResult[k].market \notin {name, NormalizeMarket(name)}

\* The article row a document of the index was added for.
ArticleOfDoc(d) == [url |-> d.url, hash |-> ContentHash(d.content)]

\* C33: when process_urls has returned, every document whose chunks are in
\* the vector index is a committed row of table articles.
C33_IndexedArticlesPersisted ==
    ingPc = "returned" =>
        \A d \in index : \E i \in 1..Len(dbArticles) : dbArticles[i] = ArticleOfDoc(d)

\* What holds of the code: every article committed by process_urls has its
\* chunks in the index, and nothing is ever taken out of the index.
C33_CommittedAreIndexed ==
    /\ \A i \in 1..Len(dbArticles) :
          dbArticles[i] # OldArticle => \E d \in index : dbArticles[i] = ArticleOfDoc(d)
    /\ ingPc # "idle" => ingSnap.index \subseteq index

\* The chunks of the documents of a list.
ChunksOfDocs(docs) == SumSeq([i \in 1..Len(docs) |-> ChunksOf(docs[i].content)])

\* The articles of the batch that process_urls committed.
CommittedDocs == SelectSeq(ingBatch, LAMBDA d :
                     \E k \in 1..Len(ingOutcomes) : ingBatch[k] = d /\ ingOutcomes[k] = "processed")

\* C34: the counts process_urls returns add up to the number of urls it was
\* given, processed being the committed articles, and the chunk count is the
\* number of chunks indexed for the committed articles.
C34_CountsOfCommitted ==
    ingPc = "returned" =>
        /\ ingRet.processed + ingRet.skipped = Len(ingUrls)
        /\ ingRet.processed = Count(ingOutcomes, "processed")
        /\ ingRet.chunks = ChunksOfDocs(CommittedDocs)

\* C34 as the code has it: the chunk count is the number of chunks indexed
\* during the call, for every article vector_store.add returned for, whether
\* the article was committed afterwards or rolled back.
C34_CountsOfIndexed ==
    ingPc = "returned" =>
        /\ ingRet.processed + ingRet.skipped = Len(ingUrls)
        /\ ingRet.processed = Count(ingOutcomes, "processed")
        /\ ingRet.chunks = ChunksOfDocs(ingIndexed)

\* Two urls: one article was committed, the other failed after its text was
\* indexed, and the chunks of both are in the count.
C34_Witness ==
    /\ ingPc = "returned"
    /\ Len(ingUrls) = 2
    /\ Len(ingIndexed) = 2
    /\ Count(ingOutcomes, "processed") = 1
    /\ Count(ingOutcomes, "failed") = 1
    /\ ingRet = [processed |-> 1, skipped |-> 1, chunks |-> ChunksOfDocs(ingIndexed)]
    /\ ingRet.chunks > ChunksOfDocs(CommittedDocs)

\* C35: every call of detect_anomaly that process_urls makes for an article
\* reads, among its samples, the Sentiment row the article has just added
\* for that market.
C35_OwnRowAmongSamples == \A i \in DOMAIN ingDetects : ingDetects[i].own

\* What holds of the code: no call of detect_anomaly reads the row just
\* added; the decision rests on the rows of earlier articles and on rows of
\* this article that a market's creation happened to flush.
C35_OwnRowNeverAmongSamples == \A i \in DOMAIN ingDetects : ~ingDetects[i].own

\* C36: a pass of extract's retry loop writes the cache only with the
\* result parsed from the response it has just received; the pass that ends
\* the third failed attempt returns the default record and leaves the cache
\* as it was, with no unexpired entry for the content, so the next extract
\* of the content is a miss that goes to the model.
C36_OnlyParsedResultsCached ==
    [][exPc = "calling" =>
          /\ cacheDir' # cacheDir =>
                /\ ~Attempt(exResp').raised
                /\ exPc' = "returned"
                /\ exResult' = Attempt(exResp').val
                /\ cacheDir'[exKey] =
                      [exists |-> TRUE, data |-> JsonDump(clock, exResult'), mtime |-> clock]
          /\ (exPc' = "returned" /\ Len(exExcs') = MAX_ATTEMPTS) =>
                /\ exResult' = <<DEFAULT_RECORD>>
                /\ cacheDir' = cacheDir
                /\ ~HoldsUnexpired(cacheDir', exKey, clock)]_vars

\* Three attempts failed, the default record was returned and the cache has
\* no entry for the content.
C36_Witness ==
    /\ exPc = "returned"
    /\ ~exFromCache
    /\ Len(exExcs) = MAX_ATTEMPTS
    /\ exResult = <<DEFAULT_RECORD>>
    /\ ~cacheDir[exKey].exists

\* C37: every chunk _chunk_text emits after the first extends past the end
\* of the span of the chunk emitted before it.
C37_EachChunkExtendsPast ==
    \A k \in 2..Len(chunks) : chunks[k].to > chunks[k - 1].to

\* C37 as amended: every chunk after the first is cut from a window that
\* starts after the window of the chunk before it and ends no earlier; the
\* window ends later when chunk_overlap is at most half of chunk_size and
\* the window before had not reached the end of the text; after a window
\* that reached the end of the text, a chunk lies inside the span of the
\* chunk before it.
C37_WindowsAdvance ==
    \A k \in 2..Len(chunks) :
        /\ chunks[k].wfrom > chunks[k - 1].wfrom
        /\ chunks[k].wto >= chunks[k - 1].wto
        /\ (settings.chunk_overlap <= settings.chunk_size \div 2
              /\ chunks[k - 1].wto < Len(text)) => chunks[k].wto > chunks[k - 1].wto
        /\ chunks[k - 1].wto >= Len(text) =>
              /\ chunks[k].from >= chunks[k - 1].from
              /\ chunks[k].to <= chunks[k - 1].to

\* A call with an overlap of at most half the size returned two chunks, the
\* second one ending later than the first.
C37_Witness ==
    /\ chunkPc = "done"
    /\ settings.chunk_overlap <= settings.chunk_size \div 2
    /\ Len(chunks) >= 2
    /\ chunks[2].wto > chunks[1].wto
    /\ chunks[2].wfrom < chunks[1].wto

\* A call returned a chunk cut after the window had reached the end of the
\* text: it lies inside the chunk before it.
C37_WitnessInsidePrevious ==
    /\ chunkPc = "done"
    /\ \E k \in 2..Len(chunks) :
          /\ chunks[k - 1].wto = Len(text)
          /\ chunks[k].from > chunks[k - 1].from
          /\ chunks[k].to = chunks[k - 1].to

\* C38: collect terminates for every URL list and every pattern of server
\* responses: once the tasks are handed to gather, collect eventually
\* returns, with every task done (each took a slot and released it, the
\* followed task having finished its fetch policy with a document, with None
\* or with an exception) and the limiter back at its full count.
C38_CollectTerminates ==
    (collPc = "gather") ~>
        (/\ collPc = "returned"
         /\ \A i \in 1..collN : taskPc[i] = "done"
         /\ semValue = MAX_CONCURRENT_REQUESTS
         /\ (collN > 0 => sfResult # "pending"))

\* collect has returned from more URLs than slots, after the followed task
\* slept in backoff with its slot while another task waited for one, and gave
\* up after its last attempt.
C38_Witness ==
    /\ collPc = "returned"
    /\ collN > MAX_CONCURRENT_REQUESTS
    /\ sfBlocked
    /\ sfAttempt = max_attempts - 1
    /\ sfResult = "none"

\* collect has returned although the followed fetch raised, and that task was
\* the one that had to wait for a slot.
C38_WitnessRaised ==
    /\ collPc = "returned"
    /\ collN > MAX_CONCURRENT_REQUESTS
    /\ sfTracked = collN
    /\ sfResult = "raised"

====
